---------------------------- MODULE Spec2Model ----------------------------
(***************************************************************************)
(* A model of the quantum_rng core (src/src/quantum_rng/quantum_rng.c):    *)
(* the generator object, its refill buffer and read position, the step     *)
(* counter, and the public operations that draw from it.                   *)
(*                                                                         *)
(* Buffer contents are hash values of clock readings; the model records    *)
(* for every byte where it comes from instead: the byte at offset o of the *)
(* buffer written by the g-th step is the pair <<g, o>>.                   *)
(***************************************************************************)
EXTENDS Integers, Sequences, FiniteSets, TLC

(***************************************************************************)
(* Program constants.                                                      *)
(***************************************************************************)
QRNG_NUM_QUBITS == 8
QRNG_STATE_MULTIPLIER == 16
QRNG_STATE_SIZE == QRNG_NUM_QUBITS * QRNG_STATE_MULTIPLIER
QRNG_BUFFER_SIZE == QRNG_STATE_SIZE
QRNG_MIXING_ROUNDS == 4

QRNG_SUCCESS == 0
QRNG_ERROR_NULL_CONTEXT == -1
QRNG_ERROR_NULL_BUFFER == -2
QRNG_ERROR_INVALID_LENGTH == -3
QRNG_ERROR_INSUFFICIENT_ENTROPY == -4
QRNG_ERROR_INVALID_RANGE == -5

\* sizeof(uint64_t): the length qrng_uint64 asks qrng_bytes for.
SizeofUint64 == 8

(***************************************************************************)
(* Bounds of the model.                                                    *)
(***************************************************************************)
\* No step is started that would take the counter beyond MaxCounter.
MaxCounter == 16
\* qrng_bytes is called with every length in 0..MaxSmallLen and with the
\* lengths around the buffer size (BoundaryLens).
MaxSmallLen == 9
\* Seed lengths handed to qrng_init and qrng_reseed: 0..MaxSeedLen.
MaxSeedLen == 1
\* The range functions are checked on words scaled down: int32_t and uint32_t
\* have W32 bits, uint64_t has W64 = W32 + 1 bits.
W32 == 2
\* A range call makes at most MaxAttempts draws.
MaxAttempts == 2

NULL == "NULL"
CTX == "CTX"
BUF == "BUF"

Min(a, b) == IF a < b THEN a ELSE b

\* A byte of caller memory that no copy has written.
Unwritten == <<-1, -1>>

VARIABLES
    alive,      \* TRUE iff a qrng_ctx is allocated and the caller holds its handle
    ctx,        \* the qrng_ctx object: [counter, buffer, buffer_pos, pool_index,
                \* pool_written, pool_folded]
    pc,         \* where the running public call stands ("idle": none runs, "ret": returned)
    op,         \* the public operation running or last returned
    args,       \* its arguments
    entry,      \* ctx at the entry of that call
    len,        \* qrng_bytes: bytes still to deliver
    outp,       \* qrng_bytes: out pointer, as an offset into the caller's memory
    out,        \* the caller's memory at out: len bytes and the byte after them
    i,          \* index of the warm-up loop of qrng_init / qrng_reseed
    steps,      \* quantum_step executions since the call's entry
    loc,        \* locals of the range functions and the last value drawn
    ret,        \* the value returned
    seeded,     \* history: the counter when qrng_init or qrng_reseed last returned
    handle,     \* the caller's qrng_ctx* variable, the one whose address qrng_init is given
    hist,       \* history of the object: [seeds, refills, run]
    heap,       \* two-thread program: the blocks of the allocator, [used, obj]
    thr         \* two-thread program: each thread's handle, position and locals

vars == <<alive, ctx, pc, op, args, entry, len, outp, out, i, steps, loc, ret, seeded,
          handle, hist, heap, thr>>

(***************************************************************************)
(* The history kept of the object: seeds, the warm-ups of qrng_init and     *)
(* qrng_reseed completed; refills, the steps run by reads that found the   *)
(* buffer exhausted; run, the number of qrng_uint64 calls made since a     *)
(* warm-up left buffer_pos = 0 with no other read in between (-1: none).   *)
(***************************************************************************)
NoHist == [seeds |-> 0, refills |-> 0, run |-> -1]

\* A caller's variable that nothing has been stored into.
Unset == "UNSET"

(***************************************************************************)
(* The object.                                                             *)
(***************************************************************************)
\* calloc(1, sizeof(qrng_ctx)), and what memset(ctx, 0, ...) leaves. Of the
\* entropy pool the model keeps, beside pool_index, which slot was written
\* last (pool_written) and which slot pool_mixer absorbed last
\* (pool_folded), -1 standing for none; of runtime_entropy and of the
\* arrays phase and entangle (phase), quantum_state and last_measurement it
\* keeps the function that assigned them last in the running call, "kept"
\* when the call has assigned none of their elements.
ZeroCtx ==
    [counter |-> 0, buffer |-> 0, buffer_pos |-> 0,
     pool_index |-> 0, pool_written |-> -1, pool_folded |-> -1,
     runtime_entropy |-> "kept", phase |-> "kept",
     quantum_state |-> "kept", last_measurement |-> "kept"]

\* The object between two calls: what the last call assigned is what the
\* next call finds.
Kept(c) ==
    [c EXCEPT !.runtime_entropy = "kept", !.phase = "kept",
              !.quantum_state = "kept", !.last_measurement = "kept"]

\* The number of slots of entropy_pool, the mask of pool_index, and the range
\* of uint8_t, the type of pool_index.
PoolSlots == 16
PoolMask == 15
Uint8Mod == 256

\* a & b on naturals.
RECURSIVE BitAnd(_, _)
BitAnd(a, b) ==
    IF a = 0 \/ b = 0 THEN 0
    ELSE (a % 2) * (b % 2) + 2 * BitAnd(a \div 2, b \div 2)

\* measure_state with ctx->pool_index = ctx->pool_index + 1, unmasked.
measure_state_NoMask(c) ==
    LET next == (c.pool_index + 1) % Uint8Mod
    IN  [c EXCEPT !.runtime_entropy = "measure_state",
                  !.pool_written = c.pool_index,
                  !.pool_index = next,
                  !.pool_folded = next]

\* The static measure_state:
\*   ctx->entropy_pool[ctx->pool_index] = quantum_noise(...);
\*   ctx->pool_index = (ctx->pool_index + 1) & 15;
\*   ctx->pool_mixer = hadamard_mix(ctx->pool_mixer ^ ...entropy_pool[ctx->pool_index]...);
measure_state(c) ==
    LET next == BitAnd(c.pool_index + 1, PoolMask) % Uint8Mod
    IN  [c EXCEPT !.runtime_entropy = "measure_state",
                  !.pool_written = c.pool_index,
                  !.pool_index = next,
                  !.pool_folded = next]

\* n calls of measure_state in a row.
RECURSIVE MeasureTimes(_, _)
MeasureTimes(c, n) == IF n <= 0 THEN c ELSE MeasureTimes(measure_state(c), n - 1)

\* The seed loop of f, qrng_init or qrng_reseed, run for n rounds: each
\* assigns a lane of phase, quantum_state, last_measurement and entangle and
\* calls measure_state once.
SeedLoop(c, n, f) ==
    IF n <= 0 THEN c
    ELSE [MeasureTimes(c, n) EXCEPT !.phase = f, !.quantum_state = f,
                                    !.last_measurement = f]

\* QRNG_BUFFER_SIZE / sizeof(uint64_t): the words of the buffer.
WordsPerBuffer == QRNG_BUFFER_SIZE \div SizeofUint64

\* The calls of measure_state in a quantum_step of one mixing round.
StepMeasures_OneRound == QRNG_NUM_QUBITS + WordsPerBuffer

\* The calls of measure_state in one quantum_step: one per qubit in each mixing
\* round, and one per word of the buffer.
StepMeasures == QRNG_MIXING_ROUNDS * QRNG_NUM_QUBITS + WordsPerBuffer

\* The measure_state calls of one quantum_step, worked out once for every
\* value of pool_index: the object that StepMeasures calls in a row leave,
\* paired with the pool_index they started from. measure_state reads nothing
\* of the object but its pool and its runtime_entropy.
StepPool ==
    {<<p, MeasureTimes([ZeroCtx EXCEPT !.pool_index = p], StepMeasures)>> :
        p \in 0..(Uint8Mod - 1)}

\* The object c after those calls and the assignments of the mixing rounds
\* to phase, entangle, quantum_state and last_measurement.
AfterStepMeasures(c) ==
    LET e == (CHOOSE pair \in StepPool : pair[1] = c.pool_index)[2]
    IN  [c EXCEPT !.pool_index = e.pool_index,
                  !.pool_written = e.pool_written,
                  !.pool_folded = e.pool_folded,
                  !.runtime_entropy = e.runtime_entropy,
                  !.phase = "quantum_step",
                  !.quantum_state = "quantum_step",
                  !.last_measurement = "quantum_step"]

\* quantum_step without its opening ctx->counter++.
quantum_step_NoCount(c) ==
    [AfterStepMeasures(c) EXCEPT
        !.buffer = c.counter + 1,
        !.buffer_pos = 0]

\* quantum_step without its closing ctx->buffer_pos = 0.
quantum_step_NoReset(c) ==
    [AfterStepMeasures(c) EXCEPT
        !.counter = c.counter + 1,
        !.buffer = c.counter + 1]

\* quantum_step: counter++, the mixing rounds, every word of the buffer
\* rewritten, buffer_pos = 0.
quantum_step(c) ==
    [AfterStepMeasures(c) EXCEPT
        !.counter = c.counter + 1,
        !.buffer = c.counter + 1,
        !.buffer_pos = 0]

(***************************************************************************)
(* qrng_bytes: one iteration of its while loop.                            *)
(***************************************************************************)
\* if (ctx->buffer_pos >= QRNG_BUFFER_SIZE) quantum_step(ctx);
Refill(c) == IF c.buffer_pos >= QRNG_BUFFER_SIZE THEN quantum_step(c) ELSE c

\* copy_len without if (copy_len > len) copy_len = len.
CopyLen_NoClamp(pos, l) == IF pos > QRNG_BUFFER_SIZE THEN l ELSE QRNG_BUFFER_SIZE - pos

\* size_t copy_len = QRNG_BUFFER_SIZE - ctx->buffer_pos; if (copy_len > len) copy_len = len;
\* The subtraction is unsigned: for buffer_pos > QRNG_BUFFER_SIZE it wraps to a
\* value above every len.
CopyLen(pos, l) ==
    IF pos > QRNG_BUFFER_SIZE THEN l ELSE Min(QRNG_BUFFER_SIZE - pos, l)

\* memcpy(out, ctx->buffer.bytes + ctx->buffer_pos, copy_len) on memory mem, out at offset p.
memcpy(mem, p, gen, pos, n) ==
    [k \in DOMAIN mem |->
        IF p < k /\ k <= p + n THEN <<gen, pos + (k - p - 1)>> ELSE mem[k]]

\* The caller's memory for a request of l bytes, before the call.
FreshMem(l) == [k \in 1..(l + 1) |-> Unwritten]

\* The public calls start when no call runs.
Ready == pc = "idle"

\* The handles a caller can pass: NULL, or the handle of the live object.
Handles == {NULL} \cup (IF alive THEN {CTX} ELSE {})

\* ceil(l / QRNG_BUFFER_SIZE): the most steps a request of l bytes can take.
MaxSteps(l) == (l + QRNG_BUFFER_SIZE - 1) \div QRNG_BUFFER_SIZE

\* No range function runs, nothing drawn.
NoLoc == [range |-> 0, threshold |-> 0, r |-> 0, drawn |-> FALSE, attempts |-> 0]

\* What every public call sets on entry.
Enter(o, a) ==
    /\ op' = o
    /\ args' = a
    /\ entry' = ctx
    /\ steps' = 0
    /\ loc' = NoLoc

\* return v;
Return(v) ==
    /\ pc' = "ret"
    /\ ret' = v
    /\ len' = 0
    /\ outp' = 0
    /\ out' = <<>>
    /\ i' = 0

\* An early return that comes after the call's update of runtime_entropy.
ReturnNow_Late(v) ==
    /\ Return(v)
    /\ ctx' = [ctx EXCEPT !.runtime_entropy = "early"]
    /\ UNCHANGED <<alive, heap, thr, seeded, handle, hist>>

\* A call that returns v at once, leaving the object alone.
ReturnNow(v) ==
    /\ Return(v)
    /\ UNCHANGED <<alive, heap, thr, seeded, handle, hist, ctx>>

\* Starting the loop of qrng_bytes(ctx, out, l), out pointing to fresh memory.
StartBytes(l) ==
    /\ pc' = "bytes_loop"
    /\ len' = l
    /\ outp' = 0
    /\ out' = FreshMem(l)
    /\ i' = 0
    /\ ret' = 0
    /\ UNCHANGED <<alive, heap, thr, seeded, handle, hist, ctx>>

\* The argument checks with the length tested before the buffer.
ArgError_LenFirst(c, absent, l) ==
    IF c = NULL THEN QRNG_ERROR_NULL_CONTEXT
    ELSE IF l = 0 THEN QRNG_ERROR_INVALID_LENGTH
    ELSE IF absent THEN QRNG_ERROR_NULL_BUFFER
    ELSE QRNG_SUCCESS

\* The argument checks that open qrng_bytes, qrng_entangle_states and
\* qrng_measure_state, absent telling whether a required buffer is NULL:
\*   if (!ctx) return QRNG_ERROR_NULL_CONTEXT;
\*   if (!out) return QRNG_ERROR_NULL_BUFFER;
\*   if (len == 0) return QRNG_ERROR_INVALID_LENGTH;
ArgError(c, absent, l) ==
    IF c = NULL THEN QRNG_ERROR_NULL_CONTEXT
    ELSE IF absent THEN QRNG_ERROR_NULL_BUFFER
    ELSE IF l = 0 THEN QRNG_ERROR_INVALID_LENGTH
    ELSE QRNG_SUCCESS

\* qrng_bytes(c, o, l)
qrng_bytes(L) ==
    \E c \in Handles, o \in {NULL, BUF}, l \in L :
        /\ Ready
        /\ Enter("bytes", [ctx |-> c, out |-> o, len |-> l])
        /\ IF ArgError(c, o = NULL, l) # QRNG_SUCCESS
           THEN ReturnNow(ArgError(c, o = NULL, l))
           ELSE /\ \/ ctx.counter + MaxSteps(l) <= MaxCounter
                   \/ ctx.buffer_pos + l <= QRNG_BUFFER_SIZE
                /\ StartBytes(l)

\* An iteration that refills eagerly: it also steps as soon as its copy has
\* emptied the buffer.
BytesIter_Eager ==
    /\ pc = "bytes_loop"
    /\ len > 0
    /\ LET c1 == Refill(ctx)
           copy_len == CopyLen(c1.buffer_pos, len)
           c2 == Refill([c1 EXCEPT !.buffer_pos = c1.buffer_pos + copy_len])
       IN  /\ out' = memcpy(out, outp, c1.buffer, c1.buffer_pos, copy_len)
           /\ ctx' = c2
           /\ outp' = outp + copy_len
           /\ len' = len - copy_len
           /\ steps' = steps + (c2.counter - ctx.counter)
           /\ hist' = [hist EXCEPT !.refills = @ + (c2.counter - ctx.counter)]
    /\ UNCHANGED <<alive, heap, thr, seeded, handle, pc, op, args, entry, i, loc, ret>>

\* One iteration of while (len > 0) { ... }.
BytesIter ==
    /\ pc = "bytes_loop"
    /\ len > 0
    /\ LET c1 == Refill(ctx)
           copy_len == CopyLen(c1.buffer_pos, len)
       IN  /\ out' = memcpy(out, outp, c1.buffer, c1.buffer_pos, copy_len)
           /\ ctx' = [c1 EXCEPT !.buffer_pos = c1.buffer_pos + copy_len]
           /\ outp' = outp + copy_len
           /\ len' = len - copy_len
           /\ steps' = steps + (c1.counter - ctx.counter)
           /\ hist' = [hist EXCEPT !.refills =
                            IF ctx.buffer_pos >= QRNG_BUFFER_SIZE THEN @ + 1 ELSE @]
    /\ UNCHANGED <<alive, heap, thr, seeded, handle, pc, op, args, entry, i, loc, ret>>

\* The loop's exit: return QRNG_SUCCESS, to the caller or into qrng_uint64.
BytesDone ==
    /\ pc = "bytes_loop"
    /\ len = 0
    /\ IF op = "bytes"
       THEN pc' = "ret" /\ ret' = QRNG_SUCCESS /\ hist' = [hist EXCEPT !.run = -1]
       ELSE pc' = "uint64_mix" /\ ret' = ret /\ hist' = hist
    /\ UNCHANGED <<alive, heap, thr, seeded, handle, ctx, op, args, entry, len, outp, out, i, steps, loc>>

(***************************************************************************)
(* qrng_init, qrng_reseed and their warm-up loop; qrng_free.               *)
(***************************************************************************)
\* A warm-up of QRNG_MIXING_ROUNDS steps only.
WarmupRounds_Half == QRNG_MIXING_ROUNDS

\* The bound of for (i = 0; i < QRNG_MIXING_ROUNDS * 2; i++) quantum_step(ctx);
WarmupRounds == QRNG_MIXING_ROUNDS * 2

\* Entering that loop.
StartWarmup ==
    /\ pc' = "warmup"
    /\ i' = 0
    /\ len' = 0
    /\ outp' = 0
    /\ out' = <<>>
    /\ ret' = 0

\* What *ctx = calloc(1, sizeof(qrng_ctx)) leaves in the caller's variable,
\* which held h, when calloc has no memory: its null result.
AllocFailHandle_Kept(h) == h

AllocFailHandle(h) == NULL

\* qrng_init(ctxp, seed, seed_len); calloc_ok: whether calloc returns memory.
qrng_init(S) ==
    \E ctxp \in {NULL, "HANDLE"}, seed \in {NULL, BUF}, seed_len \in S,
       calloc_ok \in BOOLEAN :
        /\ Ready
        /\ Enter("init", [ctxp |-> ctxp, seed |-> seed, seed_len |-> seed_len,
                          calloc_ok |-> calloc_ok])
        /\ IF ctxp = NULL THEN ReturnNow(QRNG_ERROR_NULL_CONTEXT)
           ELSE IF seed = NULL /\ seed_len > 0 THEN ReturnNow(QRNG_ERROR_NULL_BUFFER)
           ELSE /\ ~alive
                /\ IF ~calloc_ok
                   THEN \* *ctx = calloc(...) stores NULL; return QRNG_ERROR_NULL_CONTEXT
                        /\ Return(QRNG_ERROR_NULL_CONTEXT)
                        /\ handle' = AllocFailHandle(handle)
                        /\ UNCHANGED <<alive, heap, thr, seeded, hist, ctx>>
                   ELSE /\ alive' = TRUE
                        /\ UNCHANGED <<heap, thr>>
                        /\ handle' = CTX
                        /\ seeded' = 0
                        /\ hist' = NoHist
                        /\ IF seed # NULL /\ seed_len = 0
                           THEN \* seed[i % seed_len] divides by zero in the
                                \* first round of the seed loop
                                /\ ctx' = ZeroCtx
                                /\ pc' = "fault"
                                /\ UNCHANGED <<len, outp, out, i, ret>>
                           ELSE \* the seed loop: one measure_state per qubit
                                /\ ctx' = SeedLoop(ZeroCtx, QRNG_NUM_QUBITS, "qrng_init")
                                /\ StartWarmup

\* The argument checks with an empty seed reported as a lack of entropy.
ReseedArgError_Entropy(c, seed, seed_len) ==
    IF c = NULL THEN QRNG_ERROR_NULL_CONTEXT
    ELSE IF seed = NULL /\ seed_len > 0 THEN QRNG_ERROR_NULL_BUFFER
    ELSE IF seed_len = 0 THEN QRNG_ERROR_INSUFFICIENT_ENTROPY
    ELSE QRNG_SUCCESS

\* The argument checks that open qrng_reseed.
ReseedArgError(c, seed, seed_len) ==
    IF c = NULL THEN QRNG_ERROR_NULL_CONTEXT
    ELSE IF seed = NULL /\ seed_len > 0 THEN QRNG_ERROR_NULL_BUFFER
    ELSE IF seed_len = 0 THEN QRNG_ERROR_INVALID_LENGTH
    ELSE QRNG_SUCCESS

\* qrng_reseed(c, seed, seed_len)
qrng_reseed(S) ==
    \E c \in Handles, seed \in {NULL, BUF}, seed_len \in S :
        /\ Ready
        /\ Enter("reseed", [ctx |-> c, seed |-> seed, seed_len |-> seed_len])
        /\ IF ReseedArgError(c, seed, seed_len) # QRNG_SUCCESS
           THEN ReturnNow(ReseedArgError(c, seed, seed_len))
           ELSE /\ ctx.counter + WarmupRounds <= MaxCounter
                \* the seed loop: for (i = 0; i < seed_len && i < QRNG_NUM_QUBITS; i++)
                /\ ctx' = SeedLoop([ctx EXCEPT !.runtime_entropy = "qrng_reseed"],
                                   Min(seed_len, QRNG_NUM_QUBITS), "qrng_reseed")
                /\ StartWarmup
                /\ UNCHANGED <<alive, heap, thr, seeded, handle, hist>>

\* One iteration of the warm-up loop.
WarmupStep ==
    /\ pc = "warmup"
    /\ i < WarmupRounds
    /\ ctx' = quantum_step(ctx)
    /\ i' = i + 1
    /\ steps' = steps + 1
    /\ UNCHANGED <<alive, heap, thr, seeded, handle, hist, pc, op, args, entry, len, outp, out, loc, ret>>

\* The warm-up loop's exit: return QRNG_SUCCESS.
WarmupDone ==
    /\ pc = "warmup"
    /\ ~(i < WarmupRounds)
    /\ pc' = "ret"
    /\ ret' = QRNG_SUCCESS
    /\ seeded' = ctx.counter
    /\ hist' = [hist EXCEPT !.seeds = @ + 1, !.run = 0]
    /\ UNCHANGED <<alive, heap, thr, handle, ctx, op, args, entry, len, outp, out, i, steps, loc>>

\* The builds of memset(ctx, 0, sizeof(*ctx)) in qrng_free. Nothing reads the
\* object between the memset and free(ctx), so a compiler may drop the store
\* as dead: gcc -O2 and -O3 compile qrng_free to the null test and free alone.
ScrubBuilds == {"kept", "dropped"}

\* The released block: zeroed where the build kept the memset, as it was
\* where the build dropped it.
Released(c, build) == IF build = "kept" THEN ZeroCtx ELSE c

\* qrng_free(c): memset(ctx, 0, sizeof(*ctx)); free(ctx); the caller's variable
\* keeps the released address.
qrng_free ==
    \E c \in Handles, build \in ScrubBuilds :
        /\ Ready
        /\ Enter("free", [ctx |-> c])
        /\ IF c = NULL THEN ReturnNow(0)
           ELSE /\ ctx' = Released(ctx, build)
                /\ alive' = FALSE
                /\ UNCHANGED <<heap, thr>>
                /\ seeded' = 0
                /\ hist' = NoHist
                /\ handle' = handle
                /\ Return(0)

(***************************************************************************)
(* 64-bit values, as the set of the positions of their 1 bits.             *)
(***************************************************************************)
Zero64 == {}
Ones64 == 0..63

\* x >> n
ShiftRight(x, n) == {b - n : b \in {a \in x : a >= n}}

(***************************************************************************)
(* qrng_uint64.                                                            *)
(***************************************************************************)
\* The history after one more qrng_uint64 call: the run is counted up to the
\* call after the buffer's last word.
AfterUint64(h) ==
    [h EXCEPT !.run = IF @ \in 0..WordsPerBuffer THEN @ + 1 ELSE -1]

\* qrng_uint64 filling only the low half of result.
qrng_uint64_Half ==
    \E c \in Handles :
        /\ Ready
        /\ Enter("uint64", [ctx |-> c])
        /\ IF c = NULL THEN ReturnNow(Zero64)
           ELSE /\ \/ ctx.counter + 1 <= MaxCounter
                   \/ ctx.buffer_pos + SizeofUint64 <= QRNG_BUFFER_SIZE
                /\ StartBytes(SizeofUint64 \div 2)

\* qrng_uint64(c): qrng_bytes(ctx, (uint8_t*)&result, sizeof(result)), then the mix.
qrng_uint64 ==
    \E c \in Handles :
        /\ Ready
        /\ Enter("uint64", [ctx |-> c])
        /\ IF c = NULL THEN ReturnNow(Zero64)
           ELSE /\ \/ ctx.counter + 1 <= MaxCounter
                   \/ ctx.buffer_pos + SizeofUint64 <= QRNG_BUFFER_SIZE
                /\ StartBytes(SizeofUint64)

\* The output mix of qrng_uint64 and its return to the caller. runtime_entropy
\* is a hash of the clock, so the mixed result is any of the values D.
Uint64Return(D) ==
    /\ pc = "uint64_mix"
    /\ op = "uint64"
    /\ \E u \in D : ret' = u
    /\ pc' = "ret"
    /\ hist' = AfterUint64(hist)
    /\ ctx' = [ctx EXCEPT !.runtime_entropy = "qrng_uint64"]
    /\ UNCHANGED <<alive, heap, thr, seeded, handle, op, args, entry, len, outp, out, i, steps, loc>>

(***************************************************************************)
(* qrng_double.                                                            *)
(***************************************************************************)
\* A double, as num * 2^(-exp), num a set of bit positions.
DoubleZero == [num |-> {}, exp |-> 0]

\* The shift of qrng_double, and the binary logarithm of its divisor
\* 9007199254740992.0 = 2^53.
DoubleShift == 11
DoubleScaleBits == 53

\* The conversion with a shift of 10 bits.
ToDouble_Shift10(u) == [num |-> ShiftRight(u, DoubleShift - 1), exp |-> DoubleScaleBits]

\* (double)(u >> 11) * (1.0/9007199254740992.0). A value below 2^53 converts to
\* double exactly, and so does its product with a power of two.
ToDouble(u) == [num |-> ShiftRight(u, DoubleShift), exp |-> DoubleScaleBits]

\* 0 <= d < 1: no bit of num at or above position exp.
InUnitInterval(d) == \A b \in d.num : b < d.exp

\* qrng_double(c)
qrng_double ==
    \E c \in Handles :
        /\ Ready
        /\ Enter("double", [ctx |-> c])
        /\ IF c = NULL THEN ReturnNow(DoubleZero)
           ELSE /\ \/ ctx.counter + 1 <= MaxCounter
                   \/ ctx.buffer_pos + SizeofUint64 <= QRNG_BUFFER_SIZE
                /\ StartBytes(SizeofUint64)

\* qrng_uint64's return into qrng_double, and the conversion.
DoubleReturn(D) ==
    /\ pc = "uint64_mix"
    /\ op = "double"
    /\ \E u \in D : ret' = ToDouble(u)
    /\ pc' = "ret"
    /\ hist' = AfterUint64(hist)
    /\ ctx' = [ctx EXCEPT !.runtime_entropy = "qrng_uint64"]
    /\ UNCHANGED <<alive, heap, thr, seeded, handle, op, args, entry, len, outp, out, i, steps, loc>>

(***************************************************************************)
(* qrng_range32 and qrng_range64, on scaled words.                         *)
(***************************************************************************)
W64 == W32 + 1
Mod32 == 2 ^ W32
Mod64 == 2 ^ W64
INT32_MIN == -(2 ^ (W32 - 1))
INT32_MAX == 2 ^ (W32 - 1) - 1
Int32 == INT32_MIN..INT32_MAX
UInt64 == 0..(Mod64 - 1)

\* (uint32_t)x and (int32_t)u
ToU32(x) == x % Mod32
ToI32(u) == IF (u % Mod32) > INT32_MAX THEN (u % Mod32) - Mod32 ELSE u % Mod32

\* max - min + 1 leaves int: undefined behaviour.
Overflows32(min, max) == max - min + 1 > INT32_MAX

\* uint32_t range = (uint32_t)(max - min + 1), the subtraction and the addition
\* done by the machine modulo 2^32.
Range32(min, max) == ToU32(max - min + 1)

\* The threshold taken from the largest word, UINT32_MAX % range.
Threshold_Max(range, mod) == (mod - 1) % range

\* uint32_t threshold = (uint32_t)-range % range;   uint64_t threshold = -range % range;
Threshold(range, mod) == ((mod - range) % mod) % range

\* return min + (r % range);
Result32(min, r, range) == ToI32(ToU32(min) + (r % range))
Result64(min, r, range) == (min + (r % range)) % Mod64

\* The test without !ctx.
RangeBadInput_NoNull(c, min, max) == min > max

\* if (!ctx || min > max) return max;
RangeBadInput(c, min, max) == c = NULL \/ min > max

\* The builds of if (range == 0) return max; in qrng_range32. Where max - min + 1
\* overflows, an optimising compiler may take range for positive and drop the
\* test (gcc -O2 and -O3 do); without overflow the test is as written.
ZeroTestBuilds(min, max) == IF Overflows32(min, max) THEN {"kept", "dropped"} ELSE {"kept"}

\* Entering do { r = qrng_uint64(ctx); } while (r < threshold);
StartRange(range, mod) ==
    /\ pc' = "range_loop"
    /\ loc' = [range |-> range, threshold |-> Threshold(range, mod),
               r |-> 0, drawn |-> FALSE, attempts |-> 0]
    /\ len' = 0
    /\ outp' = 0
    /\ out' = <<>>
    /\ i' = 0
    /\ ret' = 0
    /\ UNCHANGED <<alive, heap, thr, seeded, handle, hist, ctx>>

\* The process dies (SIGFPE: a division by zero).
Fault ==
    /\ pc' = "fault"
    /\ UNCHANGED <<alive, heap, thr, seeded, handle, hist, ctx, len, outp, out, i, ret>>

EnterRange(o, a) ==
    /\ op' = o
    /\ args' = a
    /\ entry' = ctx
    /\ steps' = 0

\* qrng_range32(c, min, max), <<min, max>> in P
qrng_range32(P) ==
    \E c \in Handles, min \in Int32, max \in Int32 :
    \E build \in ZeroTestBuilds(min, max) :
        /\ <<min, max>> \in P
        /\ Ready
        /\ EnterRange("range32", [ctx |-> c, min |-> min, max |-> max])
        /\ IF RangeBadInput(c, min, max)
           THEN ReturnNow(max) /\ loc' = NoLoc
           ELSE LET range == Range32(min, max) IN
                IF range = 0 /\ build = "kept"
                THEN ReturnNow(max) /\ loc' = NoLoc
                ELSE IF range = 0
                THEN \* (uint32_t)-range % range
                     Fault /\ loc' = NoLoc
                ELSE StartRange(range, Mod32)

\* qrng_range64 without if (min == max) return min;
qrng_range64_NoEqual(P) ==
    \E c \in Handles, min \in UInt64, max \in UInt64 :
        /\ <<min, max>> \in P
        /\ Ready
        /\ EnterRange("range64", [ctx |-> c, min |-> min, max |-> max])
        /\ IF RangeBadInput(c, min, max)
           THEN ReturnNow(max) /\ loc' = NoLoc
           ELSE LET range == (max - min + 1) % Mod64 IN
                IF range = 0
                THEN ReturnNow(max) /\ loc' = NoLoc
                ELSE StartRange(range, Mod64)

\* qrng_range64(c, min, max), <<min, max>> in P
qrng_range64(P) ==
    \E c \in Handles, min \in UInt64, max \in UInt64 :
        /\ <<min, max>> \in P
        /\ Ready
        /\ EnterRange("range64", [ctx |-> c, min |-> min, max |-> max])
        /\ IF RangeBadInput(c, min, max)
           THEN ReturnNow(max) /\ loc' = NoLoc
           ELSE IF min = max
           THEN ReturnNow(min) /\ loc' = NoLoc
           ELSE LET range == (max - min + 1) % Mod64 IN
                IF range = 0
                THEN ReturnNow(max) /\ loc' = NoLoc
                ELSE StartRange(range, Mod64)

\* The bytes read since the call's entry: each step starts a new buffer.
Consumed ==
    (ctx.counter - entry.counter) * QRNG_BUFFER_SIZE + ctx.buffer_pos - entry.buffer_pos

\* The call r = qrng_uint64(ctx) of the do-while loop; no step takes the counter
\* beyond K.
RangeDraw(K) ==
    /\ pc = "range_loop"
    /\ Consumed < MaxAttempts * SizeofUint64
    /\ \/ ctx.counter + 1 <= K
       \/ ctx.buffer_pos + SizeofUint64 <= QRNG_BUFFER_SIZE
    /\ StartBytes(SizeofUint64)
    /\ UNCHANGED <<op, args, entry, steps, loc>>

\* qrng_uint64's return into the loop: r = (uint32_t)qrng_uint64(ctx) in
\* qrng_range32, r = qrng_uint64(ctx) in qrng_range64; any value may be drawn.
RangeDrawn ==
    /\ pc = "uint64_mix"
    /\ op \in {"range32", "range64"}
    /\ \E u \in UInt64 :
        loc' = [loc EXCEPT !.r = IF op = "range32" THEN ToU32(u) ELSE u,
                           !.drawn = TRUE,
                           !.attempts = @ + 1]
    /\ pc' = "range_check"
    /\ hist' = AfterUint64(hist)
    /\ ctx' = [ctx EXCEPT !.runtime_entropy = "qrng_uint64"]
    /\ UNCHANGED <<alive, heap, thr, seeded, handle, op, args, entry, len, outp, out, i, steps, ret>>

\* while (r < threshold); return min + (r % range);
RangeCheck ==
    /\ pc = "range_check"
    /\ IF loc.r < loc.threshold
       THEN pc' = "range_loop" /\ ret' = ret
       ELSE /\ pc' = "ret"
            /\ ret' = IF op = "range32"
                      THEN Result32(args.min, loc.r, loc.range)
                      ELSE Result64(args.min, loc.r, loc.range)
    /\ UNCHANGED <<alive, heap, thr, seeded, handle, hist, ctx, op, args, entry, len, outp, out, i, steps, loc>>

(***************************************************************************)
(* qrng_get_entropy_estimate, qrng_entangle_states, qrng_measure_state.    *)
(* None of them reads or writes counter, buffer or buffer_pos.             *)
(***************************************************************************)
\* The estimate of a live generator: a double the model does not compute.
Estimate == [num |-> {}, exp |-> 0, estimate |-> TRUE]

\* qrng_get_entropy_estimate(c)
qrng_get_entropy_estimate ==
    \E c \in Handles :
        /\ Ready
        /\ Enter("entropy_estimate", [ctx |-> c])
        /\ IF c = NULL THEN ReturnNow(DoubleZero)
           ELSE /\ Return(Estimate)
                /\ ctx' = [ctx EXCEPT !.runtime_entropy = "qrng_get_entropy_estimate"]
                /\ UNCHANGED <<alive, heap, thr, seeded, handle, hist>>

\* qrng_entangle_states that also refills the buffer.
Entangled_Step(c) ==
    [quantum_step(c) EXCEPT !.runtime_entropy = "qrng_entangle_states",
                            !.quantum_state = "qrng_entangle_states"]

\* What a successful qrng_entangle_states leaves of the object: it assigns
\* runtime_entropy and, after its loop over the two buffers, every lane of
\* quantum_state.
Entangled(c) ==
    [c EXCEPT !.runtime_entropy = "qrng_entangle_states",
              !.quantum_state = "qrng_entangle_states"]

\* qrng_entangle_states(c, state1, state2, l)
qrng_entangle_states(L) ==
    \E c \in Handles, state1 \in {NULL, BUF}, state2 \in {NULL, BUF}, l \in L :
        /\ Ready
        /\ Enter("entangle_states",
                 [ctx |-> c, state1 |-> state1, state2 |-> state2, len |-> l])
        /\ IF ArgError(c, state1 = NULL \/ state2 = NULL, l) # QRNG_SUCCESS
           THEN ReturnNow(ArgError(c, state1 = NULL \/ state2 = NULL, l))
           ELSE /\ Return(QRNG_SUCCESS)
                /\ ctx' = Entangled(ctx)
                /\ UNCHANGED <<alive, heap, thr, seeded, handle, hist>>

\* qrng_measure_state(c, state, l): its argument checks, then its two loops.
qrng_measure_state(L) ==
    \E c \in Handles, state \in {NULL, BUF}, l \in L :
        /\ Ready
        /\ Enter("measure_state", [ctx |-> c, state |-> state, len |-> l])
        /\ IF ArgError(c, state = NULL, l) # QRNG_SUCCESS
           THEN ReturnNow(ArgError(c, state = NULL, l))
           ELSE /\ pc' = "measure_loop"
                /\ i' = 0
                /\ len' = 0
                /\ outp' = 0
                /\ out' = <<>>
                /\ ret' = 0
                /\ ctx' = [ctx EXCEPT !.runtime_entropy = "qrng_measure_state"]
                /\ UNCHANGED <<alive, heap, thr, seeded, handle, hist>>

\* One round of for (i = 0; i < len; i++) or of the loop over the qubits
\* that follows it: each calls measure_state once.
MeasureIter ==
    /\ pc = "measure_loop"
    /\ i < args.len + QRNG_NUM_QUBITS
    /\ ctx' = IF i < args.len THEN measure_state(ctx)
              ELSE [measure_state(ctx) EXCEPT !.last_measurement = "qrng_measure_state"]
    /\ i' = i + 1
    /\ UNCHANGED <<alive, heap, thr, seeded, handle, hist, pc, op, args, entry, len, outp, out, steps,
                   loc, ret>>

\* After both loops: return QRNG_SUCCESS.
MeasureDone ==
    /\ pc = "measure_loop"
    /\ ~(i < args.len + QRNG_NUM_QUBITS)
    /\ pc' = "ret"
    /\ ret' = QRNG_SUCCESS
    /\ UNCHANGED <<alive, heap, thr, seeded, handle, hist, ctx, op, args, entry, len, outp, out, i,
                   steps, loc>>

(***************************************************************************)
(* The caller.                                                             *)
(***************************************************************************)
\* The caller has the returned value and is about to make its next call: the
\* frame of the call that returned is gone.
CallerContinues ==
    /\ pc = "ret"
    /\ pc' = "idle"
    /\ op' = "none"
    /\ args' = [ctx |-> NULL]
    /\ entry' = ZeroCtx
    /\ len' = 0
    /\ outp' = 0
    /\ out' = <<>>
    /\ i' = 0
    /\ steps' = 0
    /\ loc' = NoLoc
    /\ ret' = 0
    /\ ctx' = Kept(ctx)
    /\ UNCHANGED <<alive, heap, thr, seeded, handle, hist>>

(***************************************************************************)
(* The program of two threads: each calls qrng_init for a state of its own *)
(* and works on it while the other does the same. The allocator has a      *)
(* block for each.                                                         *)
(***************************************************************************)
Threads == {1, 2}
Blocks == {"block1", "block2"}

\* The allocator before any calloc, and a thread before its qrng_init.
NoHeap == [b \in Blocks |-> [used |-> FALSE, obj |-> ZeroCtx]]
NoThread == [pc |-> "idle", h |-> NULL, i |-> 0, len |-> 0, solo |-> ZeroCtx]

(***************************************************************************)
(* Specification of the byte stream: the life of one generator, read in    *)
(* requests of every small length and of the lengths around the buffer     *)
(* size.                                                                   *)
(***************************************************************************)
Init ==
    /\ alive = FALSE
    /\ ctx = ZeroCtx
    /\ pc = "idle"
    /\ op = "none"
    /\ args = [ctx |-> NULL]
    /\ entry = ZeroCtx
    /\ len = 0
    /\ outp = 0
    /\ out = <<>>
    /\ i = 0
    /\ steps = 0
    /\ loc = NoLoc
    /\ ret = 0
    /\ seeded = 0
    /\ handle = Unset
    /\ hist = NoHist
    /\ heap = NoHeap
    /\ thr = [t \in Threads |-> NoThread]

SeedLens == 0..MaxSeedLen
SmallLens == 0..MaxSmallLen
BoundaryLens == (QRNG_BUFFER_SIZE - 1)..(QRNG_BUFFER_SIZE + 2)
StreamLens == SmallLens \cup BoundaryLens
StreamDraws == {Zero64, Ones64}

Next ==
    \/ qrng_init(SeedLens)
    \/ qrng_reseed(SeedLens)
    \/ WarmupStep
    \/ WarmupDone
    \/ qrng_free
    \/ qrng_bytes(StreamLens)
    \/ BytesIter
    \/ BytesDone
    \/ qrng_uint64
    \/ Uint64Return(StreamDraws)
    \/ CallerContinues

Spec == Init /\ [][Next]_vars

(***************************************************************************)
(* Properties of the byte stream, checked under Spec.                      *)
(***************************************************************************)
\* The place of a delivered byte in the stream of generated bytes.
StreamPos(b) == b[1] * QRNG_BUFFER_SIZE + b[2]

\* The read position of an object in the same stream.
ReadPos(c) == c.buffer * QRNG_BUFFER_SIZE + c.buffer_pos

\* A qrng_bytes call that passed its argument checks.
BytesCall == op = "bytes" /\ args.ctx # NULL /\ args.out # NULL /\ args.len > 0

\* C2: for a valid state, a non-null out and any len > 0, qrng_bytes
\* terminates, every iteration of its loop copying at least one byte and the
\* bytes left to copy never falling below zero; it returns QRNG_SUCCESS; and it
\* writes exactly out[0..len): none of these is left unwritten and the byte
\* after out[len-1] is untouched, whatever the read position was on entry.
C2_BytesFillsExactly ==
    /\ [](BytesCall =>
            /\ pc \in {"bytes_loop", "ret"}
            /\ len >= 0
            /\ outp + len = args.len
            /\ DOMAIN out = 1..(args.len + 1)
            /\ \A k \in 1..outp : out[k] # Unwritten
            /\ \A k \in (outp + 1)..(args.len + 1) : out[k] = Unwritten
            /\ pc = "bytes_loop" => ENABLED (BytesIter \/ BytesDone)
            /\ pc = "ret" => (ret = QRNG_SUCCESS /\ len = 0 /\ outp = args.len))
    /\ [][BytesIter => (len' < len /\ outp' > outp)]_vars

\* A call of 130 bytes entered with the buffer exhausted has returned.
C2_Witness ==
    /\ BytesCall
    /\ pc = "ret"
    /\ args.len = QRNG_BUFFER_SIZE + 2
    /\ entry.buffer_pos = QRNG_BUFFER_SIZE
    /\ steps = 2
    /\ out[QRNG_BUFFER_SIZE + 2] # Unwritten

\* C8: a successful qrng_init returns with exactly 8 steps executed
\* (counter = 8) and buffer_pos = 0; a successful qrng_reseed returns with the
\* counter increased by exactly 8 and buffer_pos = 0. The first draw after
\* either is served from byte 0 of the buffer written by the 8th warm-up
\* step, without another step while it stays within that buffer, and no byte
\* delivered comes from a buffer older than the last seeding.
C8_WarmupBeforeFirstDraw ==
    /\ (pc = "ret" /\ op = "init" /\ ret = QRNG_SUCCESS) =>
            /\ alive
            /\ steps = 8
            /\ ctx.counter = 8
            /\ ctx.buffer = ctx.counter
            /\ ctx.buffer_pos = 0
            /\ seeded = ctx.counter
    /\ (pc = "ret" /\ op = "reseed" /\ ret = QRNG_SUCCESS) =>
            /\ steps = 8
            /\ ctx.counter = entry.counter + 8
            /\ ctx.buffer = ctx.counter
            /\ ctx.buffer_pos = 0
            /\ seeded = ctx.counter
    /\ (op \in {"bytes", "uint64"} /\ outp > 0
            /\ entry.counter = seeded /\ entry.buffer_pos = 0) =>
            /\ out[1] = <<seeded, 0>>
            /\ outp <= QRNG_BUFFER_SIZE => steps = 0
    /\ \A k \in DOMAIN out : out[k] # Unwritten => out[k][1] >= seeded

\* The first draw after a reseed of a used generator has returned.
C8_Witness ==
    /\ pc = "ret"
    /\ op = "uint64"
    /\ args.ctx # NULL
    /\ seeded = 16
    /\ entry.counter = seeded
    /\ entry.buffer_pos = 0
    /\ steps = 0
    /\ out[1] = <<16, 0>>

\* C9: refill is lazy and exact. A successful qrng_bytes(len) entered with
\* read position p performs exactly floor((p + len - 1) / 128) steps and
\* leaves buffer_pos = ((p + len - 1) mod 128) + 1; its k-th byte is byte
\* (p + k) mod 128 of the buffer floor((p + k) / 128) steps after the
\* current one, so it delivers the unread tail of the current buffer and then
\* fresh buffers from byte 0. qrng_bytes(129) on a fresh state performs one
\* step and ends with byte 0 of the new buffer; qrng_bytes(128) performs none.
C9_LazyExactRefill ==
    (BytesCall /\ pc = "ret") =>
        LET p == entry.buffer_pos
            l == args.len
        IN  /\ ret = QRNG_SUCCESS
            /\ steps = (p + l - 1) \div QRNG_BUFFER_SIZE
            /\ ctx.counter = entry.counter + steps
            /\ ctx.buffer = ctx.counter
            /\ ctx.buffer_pos = ((p + l - 1) % QRNG_BUFFER_SIZE) + 1
            /\ \A k \in 0..(l - 1) :
                    out[k + 1] = <<entry.buffer + ((p + k) \div QRNG_BUFFER_SIZE),
                                   (p + k) % QRNG_BUFFER_SIZE>>

\* qrng_bytes(129) on a freshly initialised state has returned.
C9_Witness ==
    /\ BytesCall
    /\ pc = "ret"
    /\ args.len = QRNG_BUFFER_SIZE + 1
    /\ entry.counter = 8
    /\ entry.buffer_pos = 0
    /\ steps = 1
    /\ out[QRNG_BUFFER_SIZE + 1] = <<9, 0>>

\* C10: in every reachable state of an initialised generator buffer_pos is in
\* [0, 128]; a read that finds buffer_pos >= 128 runs exactly one step and
\* copies from byte 0 of the new buffer, and any other read runs none; every
\* byte copied comes from an offset in [0, 128), in increasing stream order,
\* from at or after the read position on entry and before the read position
\* now, so no byte of a generated buffer is delivered twice.
C10_BufferPosition ==
    /\ [](/\ alive => ctx.buffer_pos \in 0..QRNG_BUFFER_SIZE
          /\ \A k \in DOMAIN out : out[k] # Unwritten =>
                /\ out[k][2] \in 0..(QRNG_BUFFER_SIZE - 1)
                /\ ReadPos(entry) <= StreamPos(out[k])
                /\ StreamPos(out[k]) < ReadPos(ctx)
                /\ k > 1 => (/\ out[k - 1] # Unwritten
                             /\ StreamPos(out[k - 1]) < StreamPos(out[k])))
    /\ [][BytesIter =>
            IF ctx.buffer_pos >= QRNG_BUFFER_SIZE
            THEN /\ ctx'.counter = ctx.counter + 1
                 /\ out'[outp + 1] = <<ctx.counter + 1, 0>>
            ELSE /\ ctx'.counter = ctx.counter
                 /\ out'[outp + 1] = <<ctx.buffer, ctx.buffer_pos>>]_vars

\* A read that found the buffer exhausted has stepped once and copied.
C10_Witness ==
    /\ pc = "bytes_loop"
    /\ entry.buffer_pos = QRNG_BUFFER_SIZE
    /\ steps = 1
    /\ outp > 0
    /\ out[1] = <<entry.counter + 1, 0>>
    /\ ctx.buffer_pos \in 1..QRNG_BUFFER_SIZE

\* The bytes of word n (from 1) of generated buffer g, in buffer order.
WordBytes(g, n) ==
    [j \in 1..SizeofUint64 |-> <<g, SizeofUint64 * (n - 1) + j - 1>>]

\* A qrng_uint64 call on a state has returned; out is the memory of its
\* result followed by the byte after it.
Uint64Call == op = "uint64" /\ args.ctx # NULL /\ pc = "ret"

\* C13: each qrng_uint64 call consumes exactly the next 8 bytes of the byte
\* stream, through qrng_bytes, and runs at most one step. From a freshly
\* refilled buffer (buffer_pos = 0), the n-th of 16 consecutive calls consumes
\* buffer bytes [8(n-1), 8n) with no step, which are the bytes a single
\* qrng_bytes(128) delivers at the same places, in the same order; the 17th
\* call runs exactly one step and consumes the first word of the new buffer.
C13_Uint64ConsumesStream ==
    /\ Uint64Call =>
        /\ Len(out) = SizeofUint64 + 1
        /\ out[SizeofUint64 + 1] = Unwritten
        /\ \A k \in 0..(SizeofUint64 - 1) :
                StreamPos(out[k + 1]) = ReadPos(entry) + k
        /\ ReadPos(ctx) = ReadPos(entry) + SizeofUint64
        /\ steps <= 1
        /\ ctx.counter = entry.counter + steps
    /\ (alive /\ pc = "idle" /\ ctx.buffer_pos = 0) => hist.run = 0
    /\ (alive /\ pc = "idle" /\ hist.run = 0) =>
            (ctx.buffer_pos = 0 /\ ctx.buffer = seeded)
    /\ (Uint64Call /\ hist.run \in 1..WordsPerBuffer) =>
        /\ steps = 0
        /\ SubSeq(out, 1, SizeofUint64) = WordBytes(seeded, hist.run)
        /\ ctx.buffer_pos = SizeofUint64 * hist.run
    /\ (Uint64Call /\ hist.run = WordsPerBuffer + 1) =>
        /\ steps = 1
        /\ SubSeq(out, 1, SizeofUint64) = WordBytes(seeded + 1, 1)
        /\ ctx.buffer_pos = SizeofUint64
    /\ (BytesCall /\ pc = "ret" /\ args.len = QRNG_BUFFER_SIZE
            /\ entry.buffer_pos = 0) =>
        /\ steps = 0
        /\ \A n \in 1..WordsPerBuffer :
                SubSeq(out, SizeofUint64 * (n - 1) + 1, SizeofUint64 * n)
                    = WordBytes(entry.buffer, n)

\* The 17th qrng_uint64 call after qrng_init has returned.
C13_Witness ==
    /\ Uint64Call
    /\ hist.run = WordsPerBuffer + 1
    /\ entry.buffer_pos = QRNG_BUFFER_SIZE
    /\ entry.counter = 8
    /\ steps = 1
    /\ out[1] = <<9, 0>>

\* qrng_bytes(128) on a freshly refilled buffer has returned.
C13_WholeBufferRead ==
    /\ BytesCall
    /\ pc = "ret"
    /\ args.len = QRNG_BUFFER_SIZE
    /\ entry.buffer_pos = 0

(***************************************************************************)
(* Specification of the whole interface: every public operation, the       *)
(* generator read in 64-bit draws.                                         *)
(***************************************************************************)
ApiLens == {0, SizeofUint64}
ApiPairs == {<<0, 0>>, <<0, 1>>, <<1, 0>>}

\* The 64-bit values drawn: 0, 2^64 - 1, the words with one bit set, with one
\* bit clear, and with only their low n bits set.
Draws64 ==
    {Zero64, Ones64}
        \cup {{b} : b \in Ones64}
        \cup {Ones64 \ {b} : b \in Ones64}
        \cup {0..b : b \in Ones64}

NextApi ==
    \/ qrng_init(SeedLens)
    \/ qrng_reseed(SeedLens)
    \/ WarmupStep
    \/ WarmupDone
    \/ qrng_free
    \/ qrng_bytes(ApiLens)
    \/ BytesIter
    \/ BytesDone
    \/ qrng_uint64
    \/ Uint64Return(Draws64)
    \/ qrng_double
    \/ DoubleReturn(Draws64)
    \/ qrng_range32(ApiPairs)
    \/ qrng_range64(ApiPairs)
    \/ RangeDraw(MaxCounter)
    \/ RangeDrawn
    \/ RangeCheck
    \/ qrng_get_entropy_estimate
    \/ qrng_entangle_states(ApiLens)
    \/ qrng_measure_state(ApiLens)
    \/ MeasureIter
    \/ MeasureDone
    \/ CallerContinues

SpecApi == Init /\ [][NextApi]_vars

(***************************************************************************)
(* Properties of the interface, checked under SpecApi.                     *)
(***************************************************************************)
\* The operations whose state argument is ctx.
TakesCtx ==
    {"bytes", "reseed", "entangle_states", "measure_state", "uint64", "double",
     "range32", "range64", "entropy_estimate", "free"}

\* C3: qrng_double always returns a value in [0, 1): it is k / 2^53 where
\* k = qrng_uint64() >> 11 is an integer with 0 <= k <= 2^53 - 1, for every
\* 64-bit draw (its bits 0..52 are the draw's bits 11..63), and 0.0 for a null
\* state.
C3_DoubleInUnitInterval ==
    (pc = "ret" /\ op = "double") =>
        /\ InUnitInterval(ret)
        /\ args.ctx = NULL => ret = DoubleZero
        /\ args.ctx # NULL =>
                /\ ret.exp = 53
                /\ ret.num \subseteq 0..52
                /\ \E u \in Draws64 : ret.num = {b - 11 : b \in u \cap (11..63)}

\* The draw 2^64 - 1 has been converted: k = 2^53 - 1, the largest result.
C3_Witness ==
    /\ pc = "ret"
    /\ op = "double"
    /\ args.ctx # NULL
    /\ ret.num = 0..52
    /\ ret.exp = 53

C5_BufferAndLengthErrors ==
    LET valid == args.ctx # NULL
        absent == CASE op = "bytes" -> args.out = NULL
                    [] op = "entangle_states" -> args.state1 = NULL \/ args.state2 = NULL
                    [] op = "measure_state" -> args.state = NULL
                    [] OTHER -> FALSE
    IN  /\ (op \in {"bytes", "entangle_states", "measure_state"} /\ valid
                /\ (absent \/ args.len = 0)) =>
                /\ pc = "ret"
                /\ ret = IF absent THEN -2 ELSE -3
                /\ ret # QRNG_SUCCESS
                /\ ctx = entry
        /\ (op = "reseed" /\ valid /\ (args.seed = NULL \/ args.seed_len = 0)) =>
                /\ pc = "ret"
                /\ ret = IF args.seed_len = 0 THEN -3 ELSE -2
                /\ ret # QRNG_SUCCESS
                /\ ctx = entry

\* qrng_measure_state has returned -2 for an absent buffer of length 0.
C5_Witness ==
    /\ pc = "ret"
    /\ op = "measure_state"
    /\ args.ctx # NULL
    /\ args.state = NULL
    /\ args.len = 0
    /\ ret = -2

\* C11, as stated: the counter starts at 0 and only steps change it, each by
\* exactly 1, so that a call has advanced it by the steps it ran; and between
\* reseeds it equals 8 plus the number of refills performed.
C11_CounterEightPlusRefills ==
    /\ (alive /\ op = "init" /\ pc = "warmup") => ctx.counter = i
    /\ (alive /\ op # "init" /\ pc \notin {"idle", "fault"}) =>
            ctx.counter = entry.counter + steps
    /\ (alive /\ pc \notin {"warmup", "fault"}) => ctx.counter = 8 + hist.refills

\* C11, amended: the counter starts at 0 and is changed only by a step, which
\* adds exactly 1 to it; neither the seed loops, nor the output mix of
\* qrng_uint64, nor qrng_entangle_states, qrng_measure_state or
\* qrng_get_entropy_estimate change it. So the counter equals the number of
\* steps performed: 8 for each warm-up completed by qrng_init or qrng_reseed,
\* plus the steps of the warm-up under way, plus the number of refills.
C11_CounterCountsSteps ==
    /\ [](alive =>
            ctx.counter = 8 * hist.seeds + hist.refills
                            + (IF pc = "warmup" THEN i ELSE 0))
    /\ [][(~alive /\ alive') => ctx'.counter = 0]_vars
    /\ [][(alive /\ alive' /\ ctx'.counter # ctx.counter) =>
            /\ ctx'.counter = ctx.counter + 1
            /\ \/ pc = "warmup" /\ i' = i + 1
               \/ pc = "bytes_loop" /\ ctx.buffer_pos >= QRNG_BUFFER_SIZE
                    /\ hist'.refills = hist.refills + 1]_vars

\* qrng_reseed has returned on a generator that qrng_init had warmed up: the
\* counter stands at 16 with no refill performed.
C11_Witness ==
    /\ alive
    /\ pc = "ret"
    /\ op = "reseed"
    /\ ret = QRNG_SUCCESS
    /\ hist.seeds = 2
    /\ hist.refills = 0
    /\ ctx.counter = 16

\* A qrng_init call that passed its argument checks and was given memory.
InitCall ==
    /\ op = "init"
    /\ args.ctxp # NULL
    /\ ~(args.seed = NULL /\ args.seed_len > 0)
    /\ args.calloc_ok

\* C15: qrng_init with seed_len = 0 uses 0 as every seed byte and returns
\* QRNG_SUCCESS without evaluating i % seed_len, so without a division by
\* zero, whether seed is null or not.
C15_InitZeroSeedLen ==
    (InitCall /\ args.seed_len = 0) =>
        /\ pc # "fault"
        /\ pc = "ret" => ret = QRNG_SUCCESS

\* qrng_init(&ctx, NULL, 0) has returned QRNG_SUCCESS after its warm-up.
C15_NullSeedReturned ==
    /\ InitCall
    /\ args.seed = NULL
    /\ args.seed_len = 0
    /\ pc = "ret"
    /\ ret = QRNG_SUCCESS
    /\ ctx.counter = WarmupRounds

\* The operations that return a qrng_error.
Fallible == {"init", "reseed", "bytes", "entangle_states", "measure_state"}

\* C17: no operation returns QRNG_ERROR_INSUFFICIENT_ENTROPY (-4) or
\* QRNG_ERROR_INVALID_RANGE (-5): whatever its input, the code that qrng_init,
\* qrng_reseed, qrng_bytes, qrng_entangle_states or qrng_measure_state returns
\* is one of 0, -1, -2, -3.
C17_ReservedCodesUnused ==
    (pc = "ret" /\ op \in Fallible) =>
        /\ ret \in {0, -1, -2, -3}
        /\ ret \notin {QRNG_ERROR_INSUFFICIENT_ENTROPY, QRNG_ERROR_INVALID_RANGE}

\* qrng_reseed has turned down an empty seed, with QRNG_ERROR_INVALID_LENGTH.
C17_Witness ==
    /\ pc = "ret"
    /\ op = "reseed"
    /\ args.ctx # NULL
    /\ args.seed_len = 0
    /\ ret = QRNG_ERROR_INVALID_LENGTH

\* A qrng_init call whose calloc found no memory.
AllocFailed ==
    /\ op = "init"
    /\ args.ctxp # NULL
    /\ ~(args.seed = NULL /\ args.seed_len > 0)
    /\ ~args.calloc_ok

\* C18: when calloc fails inside qrng_init, the call returns
\* QRNG_ERROR_NULL_CONTEXT (-1) and the caller's handle is unset: it holds
\* NULL, not the address of an object, live or released, and no object has
\* been made or touched.
C18_AllocFailureUnsetsHandle ==
    AllocFailed =>
        /\ pc = "ret"
        /\ ret = QRNG_ERROR_NULL_CONTEXT
        /\ handle = NULL
        /\ handle # CTX
        /\ ~alive
        /\ ctx = entry
        /\ steps = 0

\* calloc has failed in a qrng_init called on the variable that held the
\* address of a released object, whose block still shows its counter.
C18_Witness ==
    /\ AllocFailed
    /\ pc = "ret"
    /\ ~alive
    /\ ctx.counter = WarmupRounds
    /\ handle = NULL

AllPairs32 == Int32 \X Int32
AllPairs64 == UInt64 \X UInt64
RangeCounterCap == WarmupRounds

NextRange ==
    \/ qrng_init(SeedLens)
    \/ WarmupStep
    \/ WarmupDone
    \/ qrng_range32(AllPairs32)
    \/ qrng_range64(AllPairs64)
    \/ RangeDraw(RangeCounterCap)
    \/ BytesIter
    \/ BytesDone
    \/ RangeDrawn
    \/ RangeCheck
    \/ CallerContinues

SpecRange == Init /\ [][NextRange]_vars

(***************************************************************************)
(* Properties of the range functions, checked under SpecRange.             *)
(***************************************************************************)
\* A range call on a valid state.
RangeCall == op \in {"range32", "range64"} /\ args.ctx # NULL

\* The size of the word a range call draws: 2^32 or 2^64.
WordMod == IF op = "range32" THEN Mod32 ELSE Mod64

\* C1: for every valid state and every min <= max, qrng_range32(min, max) and
\* qrng_range64(min, max) run to their return and return r with
\* min <= r <= max; for qrng_range32 on every signed pair, spans of 2^31 or
\* more included.
C1_RangeWithinBounds ==
    (RangeCall /\ args.min <= args.max) =>
        /\ pc # "fault"
        /\ pc = "ret" => (args.min <= ret /\ ret <= args.max)

\* The part of C1 that every build keeps: whatever a range call returns for
\* min <= max lies in [min, max], the arithmetic done modulo 2^32 or 2^64.
RangeReturnsWithinBounds ==
    (RangeCall /\ args.min <= args.max /\ pc = "ret") =>
        (args.min <= ret /\ ret <= args.max)

\* qrng_range32(INT32_MIN, 0), of span 2^31 + 1, has drawn and returned.
RangeWideSpanReturned ==
    /\ RangeCall
    /\ op = "range32"
    /\ pc = "ret"
    /\ args.min = INT32_MIN
    /\ args.max = 0
    /\ loc.drawn
    /\ ret = INT32_MIN

\* C6: the range functions are total. With a valid state they return max when
\* min > max and when the width max - min + 1 wraps to 0, and no call reaches
\* a remainder by a range of 0.
C6_RangeTotal ==
    RangeCall =>
        /\ pc # "fault"
        /\ pc \in {"range_loop", "range_check"} => loc.range # 0
        /\ (pc = "ret" /\ (\/ args.min > args.max
                           \/ (args.max - args.min + 1) % WordMod = 0)) =>
                ret = args.max

\* C7: rejection sampling removes modulo bias. For the word size 2^w of the
\* call and every range in [1, 2^w - 1] that reaches the loop, threshold
\* equals 2^w mod range and is below range; a draw is accepted exactly when it
\* is >= threshold, a rejected one sending the call back to draw again; the
\* value returned is min + (r mod range); and every residue k in [0, range)
\* has the same number of accepted draws r in [threshold, 2^w) with
\* r mod range = k.
C7_RejectionUnbiased ==
    /\ []((RangeCall /\ loc.range # 0) =>
            LET range == loc.range
                threshold == loc.threshold
                Accepted(k) == {r \in threshold..(WordMod - 1) : r % range = k}
            IN  /\ range \in 1..(WordMod - 1)
                /\ threshold = WordMod % range
                /\ threshold < range
                /\ \A k \in 0..(range - 1) :
                        Cardinality(Accepted(k)) = Cardinality(Accepted(0))
                /\ (pc = "range_loop" /\ loc.drawn) => loc.r < threshold
                /\ pc = "ret" =>
                        /\ loc.drawn
                        /\ loc.r >= threshold
                        /\ (ret - args.min) % WordMod = loc.r % range)
    /\ [][RangeCheck => ((pc' = "ret") <=> (loc.r >= loc.threshold))]_vars

\* qrng_range64 with a range of 3 has rejected a draw below its threshold of
\* 2^64 mod 3 and is about to draw again.
C7_Witness ==
    /\ RangeCall
    /\ op = "range64"
    /\ pc = "range_loop"
    /\ loc.range = 3
    /\ loc.threshold > 0
    /\ loc.drawn
    /\ loc.r < loc.threshold


\* C16: qrng_range64 returns max + 1 on error, a null state or min > max, as
\* its header documentation states.
C16_Range64ErrorValue ==
    (op = "range64" /\ pc = "ret"
        /\ RangeBadInput(args.ctx, args.min, args.max)) =>
            ret = (args.max + 1) % Mod64

\* qrng_range64 has returned max for min > max on a valid state.
C16_ReturnedMax ==
    /\ op = "range64"
    /\ pc = "ret"
    /\ args.ctx # NULL
    /\ args.min > args.max
    /\ ret = args.max

(***************************************************************************)
(* Specification of the entropy pool: one generator seeded, reseeded and   *)
(* measured with buffers of every small length, and read a whole buffer at *)
(* a time.                                                                 *)
(***************************************************************************)
PoolLens == 0..(MaxSeedLen + 1)
PoolReads == {QRNG_BUFFER_SIZE}

NextPool ==
    \/ qrng_init(SeedLens)
    \/ qrng_reseed(PoolLens)
    \/ WarmupStep
    \/ WarmupDone
    \/ qrng_free
    \/ qrng_bytes(PoolReads)
    \/ BytesIter
    \/ BytesDone
    \/ qrng_get_entropy_estimate
    \/ qrng_entangle_states(PoolLens)
    \/ qrng_measure_state(PoolLens)
    \/ MeasureIter
    \/ MeasureDone
    \/ CallerContinues

SpecPool == Init /\ [][NextPool]_vars

(***************************************************************************)
(* Properties of the entropy pool, checked under SpecPool.                 *)
(***************************************************************************)
\* The measure_state executions of the step the model is taking; the seed
\* loops run inside the first step of qrng_init and of qrng_reseed.
Measures ==
    IF pc = "idle" /\ pc' = "warmup"
        THEN IF op' = "init" THEN QRNG_NUM_QUBITS
             ELSE Min(args'.seed_len, QRNG_NUM_QUBITS)
    ELSE IF pc = "warmup" /\ i' = i + 1 THEN StepMeasures
    ELSE IF pc = "bytes_loop" /\ ctx.buffer_pos >= QRNG_BUFFER_SIZE /\ len' # len
        THEN StepMeasures
    ELSE IF pc = "measure_loop" /\ i' = i + 1 THEN 1
    ELSE 0

\* The pool_index a new object starts from, or the one the object had.
PoolIndexBefore ==
    IF pc = "idle" /\ op' = "init" /\ pc' \in {"warmup", "fault"} THEN 0
    ELSE ctx.pool_index

\* C12: pool_index is in [0, 15] in every reachable state; every execution of
\* measure_state advances it by exactly 1 modulo 16, writes the pool slot at
\* the old index and folds the slot at the new index into pool_mixer; and no
\* other code changes pool_index: over any piece of code it moves by the
\* number of measure_state executions in it, modulo 16.
C12_PoolIndexAdvances ==
    /\ [](ctx.pool_index \in 0..(PoolSlots - 1))
    /\ [][(pc = "measure_loop" /\ i' = i + 1) =>
            /\ ctx'.pool_index = (ctx.pool_index + 1) % PoolSlots
            /\ ctx'.pool_written = ctx.pool_index
            /\ ctx'.pool_folded = ctx'.pool_index]_vars
    /\ [][alive' =>
            ctx'.pool_index = (PoolIndexBefore + Measures) % PoolSlots]_vars
    /\ [][(alive' /\ Measures > 0) =>
            /\ ctx'.pool_written = (PoolIndexBefore + Measures - 1) % PoolSlots
            /\ ctx'.pool_folded = ctx'.pool_index]_vars

\* A measure_state execution has taken pool_index from 15 round to 0.
C12_Witness ==
    /\ alive
    /\ pc = "measure_loop"
    /\ i > 0
    /\ ctx.pool_index = 0
    /\ ctx.pool_written = PoolSlots - 1
    /\ ctx.pool_folded = 0


(***************************************************************************)
(* Specification of two states driven by two threads, their operations     *)
(* interleaved at every loop round. solo is what a thread's state would be *)
(* had its operations run alone.                                           *)
(***************************************************************************)
TwinCounterCap == WarmupRounds + 1
TwinReads == {QRNG_BUFFER_SIZE}
TwinMeasureLens == {QRNG_NUM_QUBITS \div 2}

\* The variables of the one-caller program.
single ==
    <<alive, ctx, pc, op, args, entry, len, outp, out, i, steps, loc, ret, seeded,
      handle, hist>>

\* A write through a pointer that also lands in pool_index of every other
\* object, as if pool_index were a static variable of the library.
Store_StaticPool(h, p, c) ==
    [b \in Blocks |->
        IF b = p THEN [h[b] EXCEPT !.obj = c]
        ELSE [h[b] EXCEPT !.obj.pool_index = c.pool_index]]

\* The writes of an operation to *ctx, ctx = p: the object becomes c.
Store(h, p, c) == [h EXCEPT ![p].obj = c]

\* The object thread t works on.
Mine(t) == heap[thr[t].h].obj

\* qrng_init(&ctx, NULL, 0) in thread t: calloc gives a block not in use;
\* the seed loop runs one measure_state per qubit.
TwinInit(t) ==
    /\ thr[t].pc = "idle"
    /\ thr[t].h = NULL
    /\ \E b \in Blocks :
        /\ ~heap[b].used
        /\ heap' = Store([heap EXCEPT ![b] = [used |-> TRUE, obj |-> ZeroCtx]], b,
                         SeedLoop(ZeroCtx, QRNG_NUM_QUBITS, "qrng_init"))
        /\ thr' = [thr EXCEPT ![t] =
                    [pc |-> "warmup", h |-> b, i |-> 0, len |-> 0,
                     solo |-> SeedLoop(ZeroCtx, QRNG_NUM_QUBITS, "qrng_init")]]
    /\ UNCHANGED single

\* One round of the warm-up loop of thread t.
TwinWarmupStep(t) ==
    /\ thr[t].pc = "warmup"
    /\ thr[t].i < WarmupRounds
    /\ heap' = Store(heap, thr[t].h, quantum_step(Mine(t)))
    /\ thr' = [thr EXCEPT ![t].i = @ + 1, ![t].solo = quantum_step(@)]
    /\ UNCHANGED single

\* The end of the warm-up: qrng_init returns.
TwinWarmupDone(t) ==
    /\ thr[t].pc = "warmup"
    /\ ~(thr[t].i < WarmupRounds)
    /\ thr' = [thr EXCEPT ![t].pc = "idle", ![t].i = 0]
    /\ UNCHANGED <<heap, single>>

\* qrng_bytes(ctx, out, l) in thread t.
TwinBytes(t) ==
    /\ thr[t].pc = "idle"
    /\ thr[t].h # NULL
    /\ \E l \in TwinReads :
        /\ \/ Mine(t).counter + MaxSteps(l) <= TwinCounterCap
           \/ Mine(t).buffer_pos + l <= QRNG_BUFFER_SIZE
        /\ thr' = [thr EXCEPT ![t].pc = "bytes_loop", ![t].len = l]
    /\ UNCHANGED <<heap, single>>

\* One iteration of while (len > 0) { ... } in thread t.
TwinBytesIter(t) ==
    /\ thr[t].pc = "bytes_loop"
    /\ thr[t].len > 0
    /\ LET c1 == Refill(Mine(t))
           copy_len == CopyLen(c1.buffer_pos, thr[t].len)
           s1 == Refill(thr[t].solo)
           solo_len == CopyLen(s1.buffer_pos, thr[t].len)
       IN  /\ heap' = Store(heap, thr[t].h,
                            [c1 EXCEPT !.buffer_pos = c1.buffer_pos + copy_len])
           /\ thr' = [thr EXCEPT
                        ![t].len = @ - copy_len,
                        ![t].solo = [s1 EXCEPT !.buffer_pos = s1.buffer_pos + solo_len]]
    /\ UNCHANGED single

\* The loop's exit in thread t.
TwinBytesDone(t) ==
    /\ thr[t].pc = "bytes_loop"
    /\ thr[t].len = 0
    /\ thr' = [thr EXCEPT ![t].pc = "idle"]
    /\ UNCHANGED <<heap, single>>

\* qrng_measure_state(ctx, state, l) in thread t.
TwinMeasure(t) ==
    /\ thr[t].pc = "idle"
    /\ thr[t].h # NULL
    /\ \E l \in TwinMeasureLens :
        thr' = [thr EXCEPT ![t].pc = "measure_loop", ![t].i = 0, ![t].len = l]
    /\ UNCHANGED <<heap, single>>

\* One round of either loop of qrng_measure_state in thread t.
TwinMeasureIter(t) ==
    /\ thr[t].pc = "measure_loop"
    /\ thr[t].i < thr[t].len + QRNG_NUM_QUBITS
    /\ heap' = Store(heap, thr[t].h, measure_state(Mine(t)))
    /\ thr' = [thr EXCEPT ![t].i = @ + 1, ![t].solo = measure_state(@)]
    /\ UNCHANGED single

\* After both loops, in thread t.
TwinMeasureDone(t) ==
    /\ thr[t].pc = "measure_loop"
    /\ ~(thr[t].i < thr[t].len + QRNG_NUM_QUBITS)
    /\ thr' = [thr EXCEPT ![t].pc = "idle", ![t].i = 0, ![t].len = 0]
    /\ UNCHANGED <<heap, single>>

\* qrng_free(ctx) in thread t, which then forgets the address.
TwinFree(t) ==
    /\ thr[t].pc = "idle"
    /\ thr[t].h # NULL
    /\ \E build \in ScrubBuilds :
        heap' = [heap EXCEPT ![thr[t].h] =
                    [used |-> FALSE, obj |-> Released(Mine(t), build)]]
    /\ thr' = [thr EXCEPT ![t] = NoThread]
    /\ UNCHANGED single

NextTwin ==
    \E t \in Threads :
        \/ TwinInit(t)
        \/ TwinWarmupStep(t)
        \/ TwinWarmupDone(t)
        \/ TwinBytes(t)
        \/ TwinBytesIter(t)
        \/ TwinBytesDone(t)
        \/ TwinMeasure(t)
        \/ TwinMeasureIter(t)
        \/ TwinMeasureDone(t)
        \/ TwinFree(t)

SpecTwin == Init /\ [][NextTwin]_vars

(***************************************************************************)
(* Properties of the two states, checked under SpecTwin.                   *)
(***************************************************************************)
\* C20: distinct states are independent. Two threads never hold the same
\* object; a step of one thread's operation leaves the other thread's object
\* as it was; and under every interleaving each state's counter, buffer_pos
\* and pool_index, and the buffer it reads from, are what that state's own
\* operations would have made of them running alone.
C20_StatesIndependent ==
    /\ [](\A t \in Threads : thr[t].h # NULL =>
            /\ heap[thr[t].h].used
            /\ \A u \in Threads \ {t} : thr[u].h # thr[t].h
            /\ Mine(t).counter = thr[t].solo.counter
            /\ Mine(t).buffer_pos = thr[t].solo.buffer_pos
            /\ Mine(t).pool_index = thr[t].solo.pool_index
            /\ Mine(t) = thr[t].solo)
    /\ [][\A t \in Threads :
            (thr[t].h # NULL /\ thr'[t] = thr[t]) =>
                heap'[thr[t].h] = heap[thr[t].h]]_vars

\* Thread 1 has read past a refill while thread 2, in the middle of
\* qrng_measure_state on its own state, has moved its pool_index.
C20_Witness ==
    /\ thr[1].h # NULL
    /\ thr[2].h # NULL
    /\ thr[1].pc = "idle"
    /\ Mine(1).counter = WarmupRounds + 1
    /\ Mine(1).buffer_pos = QRNG_BUFFER_SIZE
    /\ thr[2].pc = "measure_loop"
    /\ thr[2].i = 3
    /\ Mine(2).counter = WarmupRounds
    /\ Mine(2).pool_index # Mine(1).pool_index


(***************************************************************************)
(* Specification of two callers on one state: both threads hold the        *)
(* address of the same warmed-up object and call qrng_bytes on it with no  *)
(* synchronisation. The statements of the loop are interleaved one by one; *)
(* ctx->buffer_pos += copy_len is a load and a store. quantum_step is      *)
(* taken whole.                                                            *)
(***************************************************************************)
RaceCounterCap == WarmupRounds + 1
SMALL_BATCH_SIZE == 64
RaceLens == {SMALL_BATCH_SIZE, QRNG_BUFFER_SIZE}
Shared == "block1"

\* n calls of quantum_step in a row.
RECURSIVE StepTimes(_, _)
StepTimes(c, n) == IF n <= 0 THEN c ELSE StepTimes(quantum_step(c), n - 1)

\* The object qrng_init(&ctx, NULL, 0) returns.
WarmedUp == StepTimes(SeedLoop(ZeroCtx, QRNG_NUM_QUBITS, "qrng_init"), WarmupRounds)

\* No copy made yet in the call.
NoCopy == <<-1, 0, 0>>

\* A thread between two calls: copy_len and pos are its locals, src the
\* source of its last memcpy, <<generation, offset, bytes>>; raced tells
\* whether any step of a call was taken while the other thread was in one.
RaceThread ==
    [pc |-> "idle", len |-> 0, copy_len |-> 0, pos |-> 0, src |-> NoCopy,
     raced |-> FALSE]

InitRace ==
    /\ alive = FALSE
    /\ ctx = ZeroCtx
    /\ pc = "idle"
    /\ op = "none"
    /\ args = [ctx |-> NULL]
    /\ entry = ZeroCtx
    /\ len = 0
    /\ outp = 0
    /\ out = <<>>
    /\ i = 0
    /\ steps = 0
    /\ loc = NoLoc
    /\ ret = 0
    /\ seeded = 0
    /\ handle = Unset
    /\ hist = NoHist
    /\ heap = [NoHeap EXCEPT ![Shared] = [used |-> TRUE, obj |-> WarmedUp]]
    /\ thr = [t \in Threads |-> RaceThread]

\* The object both threads work on.
Ours == heap[Shared].obj

\* thr after a step of thread t that leaves t's record as r: the step is
\* noted in both records if the other thread is inside a call.
Stepped(t, r) ==
    LET racing == \E u \in Threads \ {t} : thr[u].pc # "idle"
    IN  [u \in Threads |->
            IF u = t THEN [r EXCEPT !.raced = @ \/ racing]
            ELSE [thr[u] EXCEPT !.raced = @ \/ racing]]

\* An iteration guarded by a lock: it starts only while no other thread is
\* inside one.
MayProceed_Locked(t) ==
    \A u \in Threads \ {t} : thr[u].pc \in {"idle", "check"}

\* What an iteration of the loop waits for before it starts: nothing, the
\* code takes no lock.
MayProceed(t) == TRUE

\* qrng_bytes(ctx, out, l) entered by thread t, its arguments valid.
RaceCall(t) ==
    /\ thr[t].pc = "idle"
    /\ \E l \in RaceLens :
        thr' = [thr EXCEPT ![t] = [@ EXCEPT !.pc = "check", !.len = l,
                                           !.src = NoCopy]]
    /\ UNCHANGED <<heap, single>>

\* while (len > 0) { if (ctx->buffer_pos >= QRNG_BUFFER_SIZE) quantum_step(ctx);
RaceCheck(t) ==
    /\ thr[t].pc = "check"
    /\ thr[t].len > 0
    /\ MayProceed(t)
    /\ Ours.buffer_pos >= QRNG_BUFFER_SIZE => Ours.counter < RaceCounterCap
    /\ heap' = Store(heap, Shared, Refill(Ours))
    /\ thr' = Stepped(t, [thr[t] EXCEPT !.pc = "size"])
    /\ UNCHANGED single

\* size_t copy_len = QRNG_BUFFER_SIZE - ctx->buffer_pos; if (copy_len > len) copy_len = len;
RaceSize(t) ==
    /\ thr[t].pc = "size"
    /\ thr' = Stepped(t, [thr[t] EXCEPT
                            !.pc = "copy",
                            !.copy_len = CopyLen(Ours.buffer_pos, thr[t].len)])
    /\ UNCHANGED <<heap, single>>

\* memcpy(out, ctx->buffer.bytes + ctx->buffer_pos, copy_len);
RaceCopy(t) ==
    /\ thr[t].pc = "copy"
    /\ thr' = Stepped(t, [thr[t] EXCEPT
                            !.pc = "load",
                            !.src = <<Ours.buffer, Ours.buffer_pos, thr[t].copy_len>>])
    /\ UNCHANGED <<heap, single>>

\* ctx->buffer_pos += copy_len: the load.
RaceLoad(t) ==
    /\ thr[t].pc = "load"
    /\ thr' = Stepped(t, [thr[t] EXCEPT !.pc = "store", !.pos = Ours.buffer_pos])
    /\ UNCHANGED <<heap, single>>

\* ctx->buffer_pos += copy_len: the store; out += copy_len; len -= copy_len; }
RaceStore(t) ==
    /\ thr[t].pc = "store"
    /\ heap' = Store(heap, Shared,
                     [Ours EXCEPT !.buffer_pos = thr[t].pos + thr[t].copy_len])
    /\ thr' = Stepped(t, [thr[t] EXCEPT
                            !.pc = "check",
                            !.len = @ - thr[t].copy_len,
                            !.copy_len = 0,
                            !.pos = 0])
    /\ UNCHANGED single

\* The loop's exit: return QRNG_SUCCESS.
RaceReturn(t) ==
    /\ thr[t].pc = "check"
    /\ thr[t].len = 0
    /\ thr' = [thr EXCEPT ![t].pc = "idle"]
    /\ UNCHANGED <<heap, single>>

NextRace ==
    \E t \in Threads :
        \/ RaceCall(t)
        \/ RaceCheck(t)
        \/ RaceSize(t)
        \/ RaceCopy(t)
        \/ RaceLoad(t)
        \/ RaceStore(t)
        \/ RaceReturn(t)

SpecRace == InitRace /\ [][NextRace]_vars

(***************************************************************************)
(* Properties of the two callers on one state, checked under SpecRace.     *)
(***************************************************************************)
\* The bytes of the memcpy src lie in the refill buffer.
InsideBuffer(src) == src[2] + src[3] <= QRNG_BUFFER_SIZE

\* Two memcpy sources share a byte.
SameBytes(a, b) ==
    /\ a[3] > 0
    /\ b[3] > 0
    /\ a[1] = b[1]
    /\ a[2] < b[2] + b[3]
    /\ b[2] < a[2] + a[3]

\* C21: a state has no internal locking. A caller inside qrng_bytes is never
\* made to wait for the other: each statement of its loop can run whatever
\* the other caller is doing; and it is only through such interleaving, not
\* when calls follow one another, that buffer_pos passes 128, that a copy
\* reads outside the refill buffer or that both callers are given the same
\* bytes.
C21_NoInternalLocking ==
    /\ \A t \in Threads :
        /\ (thr[t].pc = "check" /\ thr[t].len > 0
                /\ (Ours.buffer_pos < QRNG_BUFFER_SIZE
                        \/ Ours.counter < RaceCounterCap)) => ENABLED RaceCheck(t)
        /\ thr[t].pc = "size" => ENABLED RaceSize(t)
        /\ thr[t].pc = "copy" => ENABLED RaceCopy(t)
        /\ thr[t].pc = "load" => ENABLED RaceLoad(t)
        /\ thr[t].pc = "store" => ENABLED RaceStore(t)
    /\ (\A t \in Threads : ~thr[t].raced) =>
        /\ Ours.buffer_pos <= QRNG_BUFFER_SIZE
        /\ \A t \in Threads : InsideBuffer(thr[t].src)
        /\ ~SameBytes(thr[1].src, thr[2].src)

\* buffer_pos has passed 128 and thread 1, whose check saw it below 128, has
\* copied from outside the refill buffer.
C21_Witness ==
    /\ Ours.buffer_pos > QRNG_BUFFER_SIZE
    /\ thr[1].pc = "load"
    /\ thr[1].src[2] > QRNG_BUFFER_SIZE
    /\ ~InsideBuffer(thr[1].src)
    /\ thr[1].copy_len = thr[1].len

\* Both callers have been given the same bytes of the buffer.
C21_SameBytesDelivered ==
    /\ thr[1].pc = "load"
    /\ thr[2].pc = "load"
    /\ SameBytes(thr[1].src, thr[2].src)
    /\ InsideBuffer(thr[1].src)
    /\ InsideBuffer(thr[2].src)


(***************************************************************************)
(* The doubles of the generator, by range. A double is one of              *)
(*   "unit"     0 <= x < 1          "negunit"  -1 <= x < 0                 *)
(*   "one"      x = 1               "below"    x < -1,  x * M_PI finite    *)
(*   "above"    1 < x, x * M_PI finite                                    *)
(*   "huge"     finite, x * M_PI overflows                                 *)
(*   "inf"      an infinity         "nan"      not a number                *)
(* and every operation of quantum_noise gives the set of ranges its result *)
(* can lie in, as IEEE arithmetic and the C library define it.             *)
(***************************************************************************)
Dbl == {"nan", "inf", "huge", "below", "negunit", "unit", "one", "above"}
Finite == Dbl \ {"nan", "inf"}
Negative == {"below", "negunit"}
Small == {"negunit", "unit", "one"}

Bind(F(_), S) == UNION {F(a) : a \in S}
Bind2(F(_, _), S, T) == UNION {F(a, b) : a \in S, b \in T}

\* x * M_PI
TimesPi(a) ==
    CASE a = "nan" -> {"nan"}
      [] a = "inf" -> {"inf"}
      [] a = "huge" -> {"inf"}
      [] a = "above" -> {"above", "huge"}
      [] a = "below" -> {"below", "huge"}
      [] a = "one" -> {"above"}
      [] a = "unit" -> {"unit", "one", "above"}
      [] a = "negunit" -> {"negunit", "below"}

\* x * M_E: finite wherever x * M_PI is.
TimesE(a) ==
    CASE a = "nan" -> {"nan"}
      [] a = "inf" -> {"inf"}
      [] a = "huge" -> {"huge", "inf"}
      [] a = "above" -> {"above", "huge"}
      [] a = "below" -> {"below", "huge"}
      [] a = "one" -> {"above"}
      [] a = "unit" -> {"unit", "one", "above"}
      [] a = "negunit" -> {"negunit", "below"}

\* x * QRNG_FINE_STRUCTURE, x * QRNG_PLANCK: the constants are below 2^63.
Times(a) ==
    CASE a = "nan" -> {"nan"}
      [] a = "inf" -> {"inf"}
      [] a = "huge" -> {"huge", "inf"}
      [] a = "above" -> {"above", "huge", "inf"}
      [] a = "below" -> {"below", "huge", "inf"}
      [] a = "one" -> {"above"}
      [] a = "unit" -> {"unit", "one", "above"}
      [] a = "negunit" -> {"negunit", "below"}

\* sin(x), cos(x): in [-1, 1] for a finite x, a NaN otherwise.
SinCos(a) == IF a \in Finite THEN Small ELSE {"nan"}

\* x * y
Mul(a, b) ==
    LET minus == (a \in Negative) # (b \in Negative)
    IN  CASE "nan" \in {a, b} -> {"nan"}
          [] "nan" \notin {a, b} /\ "inf" \in {a, b} -> {"inf", "nan"}
          [] {a, b} \subseteq Small /\ ~minus ->
                IF {a, b} \subseteq {"one", "negunit"} THEN {"unit", "one"} ELSE {"unit"}
          [] {a, b} \subseteq Small /\ minus -> {"negunit", "unit"}
          [] OTHER ->
                IF "huge" \in {a, b} THEN Dbl \ {"nan"}
                ELSE IF minus THEN {"unit", "negunit", "below", "huge", "inf"}
                ELSE {"unit", "one", "above", "huge", "inf"}

\* fabs(x)
Fabs(a) ==
    CASE a = "below" -> {"above"}
      [] a = "negunit" -> {"unit", "one"}
      [] OTHER -> {a}

\* x + y. A double past 2^53 absorbs an addend below 1, so adding one never
\* takes a product with M_PI out of range.
Add(a, b) ==
    CASE "nan" \in {a, b} -> {"nan"}
      [] "nan" \notin {a, b} /\ "inf" \in {a, b} -> {"inf", "nan"}
      [] {a, b} \subseteq Finite /\ "huge" \in {a, b} -> Finite \cup {"inf"}
      [] {a, b} = {"unit"} -> {"unit", "one", "above"}
      [] {a, b} = {"unit", "one"} -> {"one", "above"}
      [] {a, b} = {"one"} -> {"above"}
      [] {a, b} = {"unit", "negunit"} -> {"negunit", "unit"}
      [] {a, b} = {"one", "negunit"} -> {"unit", "one"}
      [] {a, b} = {"negunit"} -> {"negunit", "below"}
      [] {a, b} \in {{"above", "unit"}, {"above", "one"}} -> {"above"}
      [] {a, b} = {"above", "negunit"} -> {"unit", "one", "above"}
      [] {a, b} = {"below", "negunit"} -> {"below"}
      [] {a, b} \in {{"below", "unit"}, {"below", "one"}} -> {"below", "negunit", "unit"}
      [] {a, b} = {"above"} -> {"above", "huge"}
      [] {a, b} = {"below"} -> {"below", "huge"}
      [] {a, b} = {"above", "below"} -> Finite \ {"huge"}

\* (x + y) * 0.5
Mean(a, b) ==
    CASE {a, b} = {"one"} -> {"one"}
      [] {a, b} \in {{"unit"}, {"unit", "one"}} -> {"unit"}
      [] OTHER -> Bind2(Mul, Add(a, b), {"unit"})

\* 1.0 - x
OneMinus(a) ==
    CASE a = "unit" -> {"unit", "one"}
      [] a = "one" -> {"unit"}
      [] a = "above" -> {"negunit", "below"}
      [] a = "negunit" -> {"one", "above"}
      [] a = "below" -> {"above", "huge"}
      [] OTHER -> {a}

\* sqrt(x): a NaN for x < 0.
Sqrt(a) ==
    CASE a \in Negative -> {"nan"}
      [] a = "huge" -> {"above", "nan"}
      [] a = "inf" -> {"inf", "nan"}
      [] OTHER -> {a}

\* x - floor(x): 1.0 for a negative x too small to count in x + 1.
FracPart(a) ==
    CASE a \in {"nan", "inf"} -> {"nan"}
      [] a \in Negative -> {"unit", "one"}
      [] OTHER -> {"unit"}

\* quantum_noise without the halving of momentum^2 + position^2.
quantum_noise_NoHalf(x) ==
    LET angle == Bind(Fabs, Bind2(Mul, Bind(SinCos, TimesPi(x)), Bind(SinCos, TimesE(x))))
        square(n) == Bind(LAMBDA m : Mul(m, m), Bind(SinCos, Times(n)))
        energy(n) == Bind2(Add, square(n), square(n))
        tunnel(n) == Bind(Sqrt, Bind(LAMBDA d : Mul(n, d), OneMinus(n)))
    IN  Bind(FracPart, Bind(tunnel, Bind(energy, angle)))

\* quantum_noise(x): the ranges its return value can lie in.
quantum_noise(x) ==
    LET angle == Bind(Fabs, Bind2(Mul, Bind(SinCos, TimesPi(x)), Bind(SinCos, TimesE(x))))
        square(n) == Bind(LAMBDA m : Mul(m, m), Bind(SinCos, Times(n)))
        energy(n) == Bind2(Mean, square(n), square(n))
        tunnel(n) == Bind(Sqrt, Bind(LAMBDA d : Mul(n, d), OneMinus(n)))
    IN  Bind(FracPart, Bind(tunnel, Bind(energy, angle)))

\* (double)x / UINT64_MAX for a uint64_t x: 1.0 at the top of the range.
Ratio == {"unit", "one"}

\* (double)(pid << (i % 16)) / UINT64_MAX: pid is an int, the shift can
\* overflow it, and a negative int gives a negative quotient.
PidRatio == {"unit", "negunit"}

\* (uint64_t)(x * UINT64_MAX) is defined only for x * 2^64 inside uint64_t.
InRange(a) == a = "unit"

(***************************************************************************)
(* Specification of the doubles: qrng_init and the steps after it, one     *)
(* round of each loop at a time, the lanes and the pool slots holding the  *)
(* range of their value; and quantum_noise applied once to an argument     *)
(* drawn among the finite doubles.                                         *)
(***************************************************************************)
NoiseCounterCap == WarmupRounds + 1
Lanes == 0..(QRNG_NUM_QUBITS - 1)
Slots == 0..(PoolSlots - 1)
NotCalled == "none"

\* calloc(1, sizeof(qrng_ctx)): every double is 0.0; conversions tells
\* whether every (uint64_t)(x * UINT64_MAX) made so far was defined.
NoiseCtx ==
    [counter |-> 0, pool_index |-> 0,
     quantum_state |-> [l \in Lanes |-> "unit"],
     entropy_pool |-> [k \in Slots |-> "unit"],
     conversions |-> TRUE]

InitNoise ==
    /\ alive = FALSE
    /\ ctx = NoiseCtx
    /\ pc = "idle"
    /\ op = "none"
    /\ args \in {[x |-> a] : a \in Finite}
    /\ entry = ZeroCtx
    /\ len = 0
    /\ outp = 0
    /\ out = <<>>
    /\ i = 0
    /\ steps = 0
    /\ loc = NoLoc
    /\ ret = NotCalled
    /\ seeded = 0
    /\ handle = Unset
    /\ hist = NoHist
    /\ heap = NoHeap
    /\ thr = [t \in Threads |-> NoThread]

\* The states of *ctx after measure_state(ctx, quantum_state, last).
MeasureNoise(c, qs) ==
    LET next == BitAnd(c.pool_index + 1, PoolMask)
    IN  {[c EXCEPT !.entropy_pool[c.pool_index] = slot,
                   !.pool_index = next,
                   !.conversions = @ /\ InRange(collapsed)
                        /\ InRange(IF next = c.pool_index THEN slot
                                   ELSE c.entropy_pool[next])] :
            collapsed \in Bind(quantum_noise, Bind2(Add, {qs}, Ratio)),
            slot \in Bind(quantum_noise,
                          Bind2(Add, Bind2(Add, {c.entropy_pool[c.pool_index]},
                                           Bind(quantum_noise, Bind2(Add, {qs}, Ratio))),
                                Ratio))}

\* The states of *ctx after ctx->quantum_state[l] = quantum_noise(S).
LaneNoise(c, l, S) ==
    {[c EXCEPT !.quantum_state[l] = v] : v \in Bind(quantum_noise, S)}

\* qrng_init up to the seed loop: calloc and the 16 pool slots.
NoiseInit ==
    /\ pc = "idle"
    /\ ~alive
    /\ alive' = TRUE
    /\ \E pool \in [Slots -> Bind(quantum_noise,
                        Bind2(Add, Bind2(Add, Bind2(Add, Ratio, Ratio), PidRatio), Ratio))] :
        ctx' = [NoiseCtx EXCEPT !.entropy_pool = pool]
    /\ pc' = "seed"
    /\ i' = 0
    /\ op' = "init"
    /\ UNCHANGED <<args, entry, len, outp, out, steps, loc, ret, seeded, handle,
                   hist, heap, thr>>

\* A round of the seed loop of qrng_init.
NoiseSeedRound ==
    /\ pc = "seed"
    /\ i < QRNG_NUM_QUBITS
    /\ \E c \in LaneNoise(ctx, i, Bind2(Add, Bind2(Add, Ratio, {ctx.entropy_pool[i % PoolSlots]}), Ratio)) :
        ctx' \in MeasureNoise(c, c.quantum_state[i])
    /\ i' = i + 1
    /\ UNCHANGED <<alive, pc, op, args, entry, len, outp, out, steps, loc, ret,
                   seeded, handle, hist, heap, thr>>

\* quantum_step entered: from the warm-up loop of qrng_init, or from a read
\* that found the buffer exhausted.
NoiseStep ==
    /\ \/ pc = "seed" /\ i = QRNG_NUM_QUBITS
       \/ pc = "stepped" /\ ctx.counter < NoiseCounterCap
    /\ ctx' = [ctx EXCEPT !.counter = @ + 1]
    /\ pc' = "round"
    /\ i' = 0
    /\ steps' = 0
    /\ op' = IF ctx.counter < WarmupRounds THEN "init" ELSE "bytes"
    /\ UNCHANGED <<alive, args, entry, len, outp, out, loc, ret, seeded, handle,
                   hist, heap, thr>>

\* A round of the inner loop of quantum_step: lane i in mixing round steps.
NoiseLane ==
    /\ pc = "round"
    /\ steps < QRNG_MIXING_ROUNDS
    /\ \E c \in LaneNoise(ctx, i, Bind2(Add, Bind2(Add, Ratio, {ctx.entropy_pool[BitAnd(i, PoolMask)]}), Ratio)) :
        \E m \in MeasureNoise(c, c.quantum_state[i]) :
            ctx' \in IF i > 0
                     THEN LaneNoise(m, i, Bind2(Add, Bind2(Add, {m.quantum_state[i]},
                                                           {m.quantum_state[i - 1]}), Ratio))
                     ELSE {m}
    /\ i' = IF i + 1 < QRNG_NUM_QUBITS THEN i + 1 ELSE 0
    /\ steps' = IF i + 1 < QRNG_NUM_QUBITS THEN steps ELSE steps + 1
    /\ UNCHANGED <<alive, pc, op, args, entry, len, outp, out, loc, ret, seeded,
                   handle, hist, heap, thr>>

\* A round of the loop of quantum_step that fills the buffer.
NoiseFill ==
    /\ pc = "round"
    /\ steps = QRNG_MIXING_ROUNDS
    /\ i < WordsPerBuffer
    /\ ctx' \in MeasureNoise(ctx, ctx.quantum_state[i % QRNG_NUM_QUBITS])
    /\ i' = i + 1
    /\ UNCHANGED <<alive, pc, op, args, entry, len, outp, out, steps, loc, ret,
                   seeded, handle, hist, heap, thr>>

\* quantum_step returns.
NoiseStepDone ==
    /\ pc = "round"
    /\ steps = QRNG_MIXING_ROUNDS
    /\ i = WordsPerBuffer
    /\ pc' = "stepped"
    /\ UNCHANGED <<alive, ctx, op, args, entry, len, outp, out, i, steps, loc, ret,
                   seeded, handle, hist, heap, thr>>

\* quantum_noise(args.x), called once.
NoiseCall ==
    /\ ret = NotCalled
    /\ ret' \in quantum_noise(args.x)
    /\ UNCHANGED <<alive, ctx, pc, op, args, entry, len, outp, out, i, steps, loc,
                   seeded, handle, hist, heap, thr>>

NextNoise ==
    \/ NoiseInit
    \/ NoiseSeedRound
    \/ NoiseStep
    \/ NoiseLane
    \/ NoiseFill
    \/ NoiseStepDone
    \/ NoiseCall

SpecNoise == InitNoise /\ [][NextNoise]_vars

(***************************************************************************)
(* Properties of the doubles, checked under SpecNoise.                     *)
(***************************************************************************)
\* Every lane and every pool slot is finite and in [0, 1), and every
\* conversion to uint64_t made so far was in range.
UnitState ==
    /\ \A l \in Lanes : ctx.quantum_state[l] = "unit"
    /\ \A k \in Slots : ctx.entropy_pool[k] = "unit"
    /\ ctx.conversions

HashCells == 2
MaxData == 2
TailCells == HashCells + 1
MaxBlocks == 2
MaxVerifies == 2
Byte == 0..1
ZeroHash == [k \in 1..HashCells |-> 0]
ChainData == {<<1>>, <<0, 1>>}
\* The signatures qrng_bytes is taken to deliver.
Signatures == {<<0, 1>>, <<1, 0>>}

\* The bytes of buffer that calculate_block_hash copies into: index,
\* timestamp, prev_hash, quantum_signature and data_size bytes of data.
Copied(block) ==
    <<block.index % 2, block.timestamp>> \o block.prev_hash
        \o block.quantum_signature \o SubSeq(block.data, 1, block.data_size)

\* What the rest of buffer can hold: it is an uninitialized local array.
Uninitialized(block) ==
    [1..(MaxData - block.data_size + TailCells) -> Byte]

\* for (i = 0; i < sizeof(buffer); i++) hash[i % HASH_SIZE] ^= buffer[i];
Fold(buffer) ==
    [k \in 1..HashCells |->
        Cardinality({j \in 1..Len(buffer) :
                        (j - 1) % HashCells = k - 1 /\ buffer[j] = 1}) % 2]

\* calculate_block_hash(block), the buffer's tail holding rest.
calculate_block_hash(block, rest) ==
    [block EXCEPT !.hash = Fold(Copied(block) \o rest)]

\* The blocks calculate_block_hash can leave.
Hashed(block) == {calculate_block_hash(block, rest) : rest \in Uninitialized(block)}

\* A block as quantum_chain_init and quantum_chain_add_block fill it before
\* they hash it; time(NULL) is taken constant.
NewBlock(idx, prev, sig, data) ==
    [index |-> idx, timestamp |-> 0, prev_hash |-> prev, hash |-> ZeroHash,
     quantum_signature |-> sig, data_size |-> Len(data),
     data |-> data \o [k \in 1..(MaxData - Len(data)) |-> 0]]

\* No verify call made, no byte altered.
NoChainHist == [tampered |-> 0, calls |-> 0, row |-> 0, before |-> <<>>, earlier |-> -1]

InitChain ==
    /\ alive = FALSE
    /\ ctx = ZeroCtx
    /\ pc = "idle"
    /\ op = "none"
    /\ args = [ctx |-> NULL]
    /\ entry = ZeroCtx
    /\ len = 0
    /\ outp = 0
    /\ out = <<>>
    /\ i = 0
    /\ steps = 0
    /\ loc = NoLoc
    /\ ret = 0
    /\ seeded = 0
    /\ handle = Unset
    /\ hist = NoChainHist
    /\ heap = [blocks |-> <<>>]
    /\ thr = [t \in Threads |-> NoThread]

\* The variables no operation of the chain uses.
unchained == <<ctx, pc, args, entry, len, outp, out, i, steps, loc, seeded, handle, thr>>

\* quantum_chain_init(&chain), its allocations succeeding.
quantum_chain_init ==
    /\ ~alive
    /\ alive' = TRUE
    /\ \E sig \in Signatures :
        \E genesis \in Hashed(NewBlock(0, ZeroHash, sig, <<>>)) :
            heap' = [blocks |-> <<genesis>>]
    /\ op' = "chain_init"
    /\ ret' = 0
    /\ hist' = NoChainHist
    /\ UNCHANGED unchained

\* quantum_chain_add_block(&chain, data, data_size), its allocations succeeding.
quantum_chain_add_block ==
    /\ alive
    /\ Len(heap.blocks) <= MaxBlocks
    /\ \E data \in ChainData, sig \in Signatures :
        LET latest == heap.blocks[Len(heap.blocks)]
        IN  \E block \in Hashed(NewBlock(latest.index + 1, latest.hash, sig, data)) :
                heap' = [blocks |-> Append(heap.blocks, block)]
    /\ op' = "add_block"
    /\ ret' = 0
    /\ hist' = [hist EXCEPT !.row = 0, !.earlier = -1]
    /\ UNCHANGED <<alive, unchained>>

\* The caller alters a data byte of a non-genesis block: block->data[j] ^= 0xFF.
AlterData ==
    /\ alive
    /\ hist.tampered = 0
    /\ \E k \in 2..Len(heap.blocks) :
        \E j \in 1..heap.blocks[k].data_size :
            /\ heap' = [heap EXCEPT !.blocks[k].data[j] = 1 - @]
            /\ hist' = [hist EXCEPT !.tampered = k, !.row = 0, !.earlier = -1]
    /\ op' = "alter"
    /\ UNCHANGED <<alive, ret, unchained>>

\* The loop of quantum_chain_verify from block k on: the chains it can
\* leave, each with the value returned.
RECURSIVE VerifyFrom(_, _)
VerifyFrom(bs, k) ==
    IF k > Len(bs) THEN {<<bs, 1>>}
    ELSE IF bs[k].prev_hash # bs[k - 1].hash THEN {<<bs, 0>>}
    ELSE UNION {IF current.hash # bs[k].hash
                THEN {<<[bs EXCEPT ![k] = current], 0>>}
                ELSE VerifyFrom([bs EXCEPT ![k] = current], k + 1) :
                    current \in Hashed(bs[k])}

\* quantum_chain_verify(&chain)
quantum_chain_verify ==
    /\ alive
    /\ hist.calls < MaxVerifies
    /\ \E outcome \in VerifyFrom(heap.blocks, 2) :
        /\ heap' = [blocks |-> outcome[1]]
        /\ ret' = outcome[2]
    /\ op' = "verify"
    /\ hist' = [hist EXCEPT !.calls = @ + 1, !.row = @ + 1,
                            !.before = heap.blocks,
                            !.earlier = IF hist.row > 0 THEN ret ELSE -1]
    /\ UNCHANGED <<alive, unchained>>

NextChain ==
    \/ quantum_chain_init
    \/ quantum_chain_add_block
    \/ AlterData
    \/ quantum_chain_verify

SpecChain == InitChain /\ [][NextChain]_vars

(***************************************************************************)
(* Properties of the example chain, checked under SpecChain.               *)
(***************************************************************************)
\* C23: quantum_chain_verify returns 1 for every chain produced only by
\* quantum_chain_init and successful quantum_chain_add_block calls, and 0
\* once a data byte of a non-genesis block has been altered after the block
\* was added.
C23_VerifyTellsIntactFromAltered ==
    (op = "verify" /\ hist.calls = 1) =>
        ret = (IF hist.tampered = 0 THEN 1 ELSE 0)

\* The first verify of a chain with an altered data byte has returned 0.
C23_AlteredRejected ==
    /\ op = "verify"
    /\ hist.calls = 1
    /\ hist.tampered = Len(heap.blocks)
    /\ ret = 0

\* C30: quantum_chain_verify modifies no block of the chain it is given, and
\* two calls in a row on the same chain, intact or altered, return the same
\* value.
C30_VerifyReadOnly ==
    op = "verify" =>
        /\ heap.blocks = hist.before
        /\ hist.row = 2 => ret = hist.earlier

\* The second of two verify calls in a row has returned 1 on a chain whose
\* latest block was altered and which the first call rejected.
C30_AlteredAcceptedSecondTime ==
    /\ op = "verify"
    /\ hist.row = 2
    /\ hist.tampered = Len(heap.blocks)
    /\ hist.earlier = 0
    /\ ret = 1


(***************************************************************************)
(* Specification of the pool under every call: the workload of SpecPool    *)
(* with the draws of single values added, their 64-bit words taken among   *)
(* DrawWords, and without qrng_free.                                       *)
(***************************************************************************)
DrawWords == {Zero64, Ones64}
DrawPairs == {<<0, 1>>, <<1, 0>>}
\* The seed lengths of qrng_reseed and the lengths of qrng_measure_state.
DrawLens == {0, 1, 2}

NextDraws ==
    \/ qrng_init(SeedLens)
    \/ qrng_reseed(DrawLens)
    \/ WarmupStep
    \/ WarmupDone
    \/ qrng_bytes(PoolReads)
    \/ BytesIter
    \/ BytesDone
    \/ qrng_uint64
    \/ Uint64Return(DrawWords)
    \/ qrng_double
    \/ DoubleReturn(DrawWords)
    \/ qrng_range32(DrawPairs)
    \/ qrng_range64(DrawPairs)
    \/ RangeDraw(MaxCounter)
    \/ RangeDrawn
    \/ RangeCheck
    \/ qrng_get_entropy_estimate
    \/ qrng_entangle_states(ApiLens)
    \/ qrng_measure_state(DrawLens)
    \/ MeasureIter
    \/ MeasureDone
    \/ CallerContinues

SpecDraws == Init /\ [][NextDraws]_vars

(***************************************************************************)
(* What calls leave alone, checked under SpecApi and SpecDraws.            *)
(***************************************************************************)
\* C24: whenever qrng_bytes, qrng_reseed, qrng_entangle_states or
\* qrng_measure_state returns a non-zero code, no field of the state and no
\* byte of a caller buffer has been modified; and when qrng_init returns
\* QRNG_ERROR_NULL_BUFFER nothing is allocated and the caller's handle is not
\* written.
C24_ErrorsLeaveStateAlone ==
    [][(pc # "ret" /\ pc' = "ret") =>
        /\ (op' \in {"bytes", "reseed", "entangle_states", "measure_state"}
                /\ ret' # QRNG_SUCCESS) =>
            /\ ctx' = entry'
            /\ ctx' = ctx
            /\ out' = <<>>
            /\ steps' = 0
        /\ (op' = "init" /\ ret' = QRNG_ERROR_NULL_BUFFER) =>
            /\ alive' = alive
            /\ handle' = handle
            /\ ctx' = ctx]_vars

\* qrng_measure_state has turned down a length of 0 on a live state whose
\* buffer is part read.
C24_Witness ==
    /\ alive
    /\ pc = "ret"
    /\ op = "measure_state"
    /\ args.ctx # NULL
    /\ args.state # NULL
    /\ ret = QRNG_ERROR_INVALID_LENGTH
    /\ ctx = entry
    /\ ctx.buffer_pos = SizeofUint64
    /\ ctx.runtime_entropy = "kept"

\* By how much, modulo 16, a call that has returned moved pool_index.
PoolMove ==
    IF op = "reseed" /\ ret = QRNG_SUCCESS THEN Min(args.seed_len, QRNG_NUM_QUBITS)
    ELSE IF op = "measure_state" /\ ret = QRNG_SUCCESS THEN args.len + QRNG_NUM_QUBITS
    ELSE 0

\* C25: every step runs measure_state 48 times, a multiple of 16, and so
\* leaves pool_index where it found it; pool_index is 8 on return from
\* qrng_init and stays 8 through bytes, uint64, double, range32, range64,
\* entangle_states and entropy_estimate calls; only qrng_reseed, by
\* min(seed_len, 8), and qrng_measure_state, by len + 8, move it, modulo 16.
C25_StepsKeepPoolIndex ==
    /\ StepMeasures = 48
    /\ StepMeasures % PoolSlots = 0
    /\ quantum_step(ctx).pool_index = ctx.pool_index
    /\ (alive /\ pc \in {"warmup", "bytes_loop"}) =>
            ctx.pool_index = IF op = "init" THEN QRNG_NUM_QUBITS
                             ELSE IF op = "reseed"
                                  THEN (entry.pool_index
                                            + Min(args.seed_len, QRNG_NUM_QUBITS)) % PoolSlots
                                  ELSE entry.pool_index
    /\ (alive /\ pc = "ret" /\ op = "init" /\ ret = QRNG_SUCCESS) =>
            ctx.pool_index = QRNG_NUM_QUBITS
    /\ (alive /\ pc = "ret" /\ op # "init") =>
            ctx.pool_index = (entry.pool_index + PoolMove) % PoolSlots

\* A read that refilled the buffer has returned with pool_index still 8.
C25_Witness ==
    /\ alive
    /\ pc = "ret"
    /\ op = "bytes"
    /\ ret = QRNG_SUCCESS
    /\ steps > 0
    /\ ctx.counter > WarmupRounds
    /\ ctx.pool_index = QRNG_NUM_QUBITS

\* C26: successful qrng_entangle_states, qrng_measure_state and
\* qrng_get_entropy_estimate calls run no step and leave counter, the refill
\* buffer and buffer_pos unchanged; entangle_states changes only
\* runtime_entropy and the quantum_state lanes, entropy_estimate only
\* runtime_entropy.
C26_NonDrawsKeepStream ==
    /\ (op \in {"entangle_states", "measure_state", "entropy_estimate"}
            /\ pc \notin {"idle", "fault"}) =>
        /\ steps = 0
        /\ ctx.counter = entry.counter
        /\ ctx.buffer = entry.buffer
        /\ ctx.buffer_pos = entry.buffer_pos
    /\ (op = "entangle_states" /\ pc = "ret") =>
        ctx = [entry EXCEPT !.runtime_entropy = ctx.runtime_entropy,
                            !.quantum_state = ctx.quantum_state]
    /\ (op = "entropy_estimate" /\ pc = "ret") =>
        ctx = [entry EXCEPT !.runtime_entropy = ctx.runtime_entropy]

\* qrng_entangle_states has succeeded on a state whose buffer is part read.
C26_Witness ==
    /\ alive
    /\ pc = "ret"
    /\ op = "entangle_states"
    /\ ret = QRNG_SUCCESS
    /\ ctx.buffer_pos = SizeofUint64
    /\ ctx.quantum_state = "qrng_entangle_states"
    /\ ctx.runtime_entropy = "qrng_entangle_states"
    /\ ctx.last_measurement = "kept"

(***************************************************************************)
(* What the range functions consume, checked under SpecRange.              *)
(***************************************************************************)
\* The range call in progress takes one of the early returns that follow the
\* test of ctx: min > max, min == max in qrng_range64, or a width
\* max - min + 1 that wraps to 0.
RangeShortCircuit ==
    \/ args.min > args.max
    \/ op = "range64" /\ args.min = args.max
    \/ op = "range32" /\ Range32(args.min, args.max) = 0
    \/ op = "range64" /\ (args.max - args.min + 1) % Mod64 = 0

\* C27: a range call on a generator that takes a short-circuit (min > max,
\* qrng_range64 with min == max, or the full domain, whose width wraps to 0)
\* draws nothing and leaves the whole object as it was on entry: counter, the
\* refill buffer, buffer_pos, runtime_entropy, the pool and pool_index; every
\* other range call has consumed 8 bytes per draw attempt, and at least one
\* attempt's worth when it returns.
C27_ShortCircuitsConsumeNothing ==
    (RangeCall /\ pc # "idle") =>
        IF RangeShortCircuit
        THEN /\ pc \in {"ret", "fault"}
             /\ ctx = entry
             /\ steps = 0
             /\ Consumed = 0
             /\ loc.attempts = 0
        ELSE /\ pc # "fault"
             /\ pc \in {"range_loop", "range_check", "ret"} =>
                    /\ Consumed = loc.attempts * SizeofUint64
                    /\ ctx.runtime_entropy =
                            IF loc.attempts = 0 THEN "kept" ELSE "qrng_uint64"
             /\ pc \in {"bytes_loop", "uint64_mix"} =>
                    Consumed \in (loc.attempts * SizeofUint64)
                                    ..((loc.attempts + 1) * SizeofUint64)
             /\ pc \in {"range_check", "ret"} => loc.attempts >= 1

\* qrng_range64 has returned min for min == max on a generator whose buffer
\* is part read, and the object is as it was on entry.
C27_Witness ==
    /\ alive
    /\ pc = "ret"
    /\ op = "range64"
    /\ args.ctx # NULL
    /\ args.min = args.max
    /\ ret = args.min
    /\ entry.buffer_pos = SizeofUint64
    /\ ctx = entry

(***************************************************************************)
(* The loop of qrng_entangle_states over the caller's two buffers, on      *)
(* scaled words: a byte of ByteBits bits, a uint64_t of WordBits bits,     *)
(* each a set of bit positions.                                            *)
(***************************************************************************)
ByteBits == 1
WordBits == 2
MaxEntLen == 2

EByte == SUBSET (0..(ByteBits - 1))
EWord == SUBSET (0..(WordBits - 1))

\* x ^ y
Xor(x, y) == (x \ y) \cup (y \ x)

\* (uint8_t)x
Low(x) == x \cap (0..(ByteBits - 1))

\* The caller's arrays, and what they can hold.
Arrays == {"A", "B"}
ArrayValues == [1..MaxEntLen -> EByte]

\* hadamard_gate(x1) and hadamard_gate(x2): the gate is a function of its
\* argument alone (quantum_noise and hadamard_mix read nothing else), whose
\* values the model does not compute: any two words, the same word for the
\* same argument.
hadamard_gate(x1, x2) == {s \in EWord \X EWord : x1 = x2 => s[1] = s[2]}

\* phase_gate(x, angle) = x ^ mixed, mixed the hash of angle.
phase_gate(x, mixed) == Xor(x, mixed)

\* The two bytes stored with no phase applied to the second.
EntangledBytes_OnePhase(s1, s2, phase) == <<Low(Xor(s1, phase)), Low(s2)>>

\* state1[i] = (uint8_t)(s1 ^ phase); state2[i] = (uint8_t)(s2 ^ phase);
EntangledBytes(s1, s2, phase) == <<Low(Xor(s1, phase)), Low(Xor(s2, phase))>>

\* What the model remembers of a call: the input bytes and the gate images.
NoEntangleHist == [a |-> <<>>, b |-> <<>>, s1 |-> <<>>, s2 |-> <<>>]

\* A generator after qrng_init, and two arrays of any content.
InitEntangle ==
    /\ alive = TRUE
    /\ ctx = Kept(WarmedUp)
    /\ pc = "idle"
    /\ op = "none"
    /\ args = [ctx |-> NULL]
    /\ entry = ZeroCtx
    /\ len = 0
    /\ outp = 0
    /\ out = <<>>
    /\ i = 0
    /\ steps = 0
    /\ loc = NoLoc
    /\ ret = 0
    /\ seeded = 1
    /\ handle = CTX
    /\ hist = NoEntangleHist
    /\ heap \in [Arrays -> ArrayValues]
    /\ thr = [t \in Threads |-> NoThread]

\* qrng_entangle_states(c, state1, state2, l): the argument checks, and the
\* update of runtime_entropy before the loop. state1 and state2 are NULL or
\* point to the caller's arrays, to the same one or to one each.
EntangleCall ==
    \E c \in Handles, state1 \in {NULL} \cup Arrays, state2 \in {NULL} \cup Arrays,
       l \in 0..MaxEntLen :
        /\ Ready
        /\ Enter("entangle_states",
                 [ctx |-> c, state1 |-> state1, state2 |-> state2, len |-> l])
        /\ IF ArgError(c, state1 = NULL \/ state2 = NULL, l) # QRNG_SUCCESS
           THEN ReturnNow(ArgError(c, state1 = NULL \/ state2 = NULL, l))
           ELSE /\ pc' = "entangle_loop"
                /\ ctx' = [ctx EXCEPT !.runtime_entropy = "qrng_entangle_states"]
                /\ hist' = [a |-> SubSeq(heap[state1], 1, l),
                            b |-> SubSeq(heap[state2], 1, l),
                            s1 |-> <<>>, s2 |-> <<>>]
                /\ i' = 0
                /\ ret' = 0
                /\ len' = 0
                /\ outp' = 0
                /\ out' = <<>>
                /\ UNCHANGED <<alive, heap, thr, seeded, handle>>

\* One round of for (i = 0; i < len; i++): both bytes are read, then state1[i]
\* is stored, then state2[i]. mixer ^ runtime_entropy and the hash of the angle
\* are any words.
EntangleIter ==
    /\ pc = "entangle_loop"
    /\ op = "entangle_states"
    /\ i < args.len
    /\ \E mixer \in EWord, mixed \in EWord :
       \E s \in hadamard_gate(Xor(heap[args.state1][i + 1], mixer),
                              Xor(heap[args.state2][i + 1], mixer)) :
            LET phase == phase_gate(Xor(s[1], s[2]), mixed)
                w == EntangledBytes(s[1], s[2], phase)
                first == [heap EXCEPT ![args.state1][i + 1] = w[1]]
            IN  /\ heap' = [first EXCEPT ![args.state2][i + 1] = w[2]]
                /\ hist' = [hist EXCEPT !.s1 = Append(@, s[1]),
                                        !.s2 = Append(@, s[2])]
    /\ i' = i + 1
    /\ UNCHANGED <<alive, thr, seeded, handle, ctx, pc, op, args, entry, len, outp, out, steps, loc, ret>>

\* After the loop: the lanes of quantum_state, and return QRNG_SUCCESS.
EntangleDone ==
    /\ pc = "entangle_loop"
    /\ op = "entangle_states"
    /\ i = args.len
    /\ ctx' = Entangled(ctx)
    /\ pc' = "ret"
    /\ ret' = QRNG_SUCCESS
    /\ UNCHANGED <<alive, heap, thr, seeded, handle, hist, op, args, entry, len, outp, out, i, steps, loc>>

NextEntangle ==
    \/ EntangleCall
    \/ EntangleIter
    \/ EntangleDone
    \/ CallerContinues

SpecEntangle == InitEntangle /\ [][NextEntangle]_vars

\* C28: in qrng_entangle_states the phase term cancels between the two
\* outputs: at every index the loop has passed, state1[i] ^ state2[i] is the
\* low byte of s1 ^ s2, s1 and s2 the images under hadamard_gate of the two
\* input bytes mixed with the same mixer and runtime entropy; and where the
\* input bytes were equal the output bytes are equal.
C28_PhaseCancels ==
    (op = "entangle_states" /\ pc \in {"entangle_loop", "ret"}
            /\ (pc = "ret" => ret = QRNG_SUCCESS)) =>
        /\ Len(hist.s1) = i
        /\ Len(hist.s2) = i
        /\ pc = "ret" => i = args.len
        /\ \A k \in 1..i :
            /\ Xor(heap[args.state1][k], heap[args.state2][k])
                    = Low(Xor(hist.s1[k], hist.s2[k]))
            /\ hist.a[k] = hist.b[k] =>
                    heap[args.state1][k] = heap[args.state2][k]

\* A call over two different arrays has returned: at index 1 the inputs were
\* equal and both bytes changed, at index 2 the inputs differed and the
\* outputs differ.
C28_Witness ==
    /\ pc = "ret"
    /\ op = "entangle_states"
    /\ ret = QRNG_SUCCESS
    /\ args.state1 # args.state2
    /\ args.len = MaxEntLen
    /\ hist.a[1] = hist.b[1]
    /\ heap[args.state1][1] # hist.a[1]
    /\ heap[args.state1][1] = heap[args.state2][1]
    /\ hist.a[2] # hist.b[2]
    /\ heap[args.state1][2] # heap[args.state2][2]
    /\ hist.s1[2] # hist.s2[2]

(***************************************************************************)
(* The seed bytes qrng_init and qrng_reseed read: two runs of the same     *)
(* call, in the same environment, on two seeds of one length. What a run   *)
(* makes of the bytes it reads goes through hashes the model does not      *)
(* compute; it keeps the bytes themselves, in the order read, so that any  *)
(* difference in a byte read shows in the state.                           *)
(***************************************************************************)
\* The width of size_t.
SizeBits == 64

\* The lengths of the seeds, up to two bytes more than twice the qubits, and
\* the most bytes two seeds differ in.
SeedRunLens == {0, 1, QRNG_NUM_QUBITS - 1, QRNG_NUM_QUBITS, QRNG_NUM_QUBITS + 1,
                2 * QRNG_NUM_QUBITS - 1, 2 * QRNG_NUM_QUBITS,
                2 * QRNG_NUM_QUBITS + 1, 2 * QRNG_NUM_QUBITS + 2}
MaxDiffer == 2

\* 2^k modulo n
RECURSIVE Pow2Mod(_, _)
Pow2Mod(k, n) == IF k = 0 THEN 1 % n ELSE (2 * Pow2Mod(k - 1, n)) % n

\* (size_t)x % n, for x above -2^SizeBits
SizeMod(x, n) == IF x >= 0 THEN x % n ELSE (Pow2Mod(SizeBits, n) + x) % n

\* The indices round r = i of qrng_init's seed loop reads:
\* seed[i % seed_len] and seed[(seed_len - 1 - i) % seed_len].
InitIndices(seed_len, r) == <<r % seed_len, SizeMod(seed_len - 1 - r, seed_len)>>

\* Round r of qrng_reseed reading every other byte from the end.
ReseedIndices_Stride(seed_len, r) == <<r, (seed_len - 1 - 2 * r) % seed_len>>

\* The indices round r = i of qrng_reseed's seed loop reads:
\* seed[i] and seed[seed_len - 1 - i].
ReseedIndices(seed_len, r) == <<r, seed_len - 1 - r>>

\* The rounds of the seed loop: i < QRNG_NUM_QUBITS in qrng_init,
\* i < seed_len && i < QRNG_NUM_QUBITS in qrng_reseed.
SeedRounds(fn, seed_len) ==
    IF fn = "qrng_init" THEN QRNG_NUM_QUBITS ELSE Min(seed_len, QRNG_NUM_QUBITS)

\* A seed of n bytes, and the same seed with the bytes at D changed.
BaseSeed(n) == [k \in 1..n |-> k % 2]
Changed(seed, D) == [k \in 1..Len(seed) |-> IF (k - 1) \in D THEN 1 - seed[k] ELSE seed[k]]

\* A run before its call.
NoRun == [pc |-> "call", i |-> 0, state |-> <<>>, read |-> {}, ret |-> 0]

\* Two runs of one call with the same pointer and length; the second seed
\* differs from the first in the bytes at hist.differ.
InitSeed ==
    /\ alive = FALSE
    /\ ctx = ZeroCtx
    /\ pc = "idle"
    /\ op = "none"
    /\ entry = ZeroCtx
    /\ len = 0
    /\ outp = 0
    /\ out = <<>>
    /\ i = 0
    /\ steps = 0
    /\ loc = NoLoc
    /\ ret = 0
    /\ seeded = 0
    /\ handle = Unset
    /\ thr = [t \in Threads |-> NoRun]
    /\ \E fn \in {"qrng_init", "qrng_reseed"}, seed \in {NULL, BUF}, n \in SeedRunLens :
       \E D \in {d \in SUBSET (0..(n - 1)) : Cardinality(d) <= MaxDiffer} :
            /\ args = [fn |-> fn, seed |-> seed, seed_len |-> n]
            /\ hist = [differ |-> D]
            /\ heap = [t \in Threads |->
                            IF t = 1 THEN BaseSeed(n) ELSE Changed(BaseSeed(n), D)]

\* thr with run t now r.
Run(t, r) == [thr EXCEPT ![t] = r]

SeedFrame == UNCHANGED <<alive, ctx, pc, op, args, entry, len, outp, out, i, steps, loc, ret, seeded, handle, hist, heap>>

\* The argument checks of qrng_init (its ctx argument valid, calloc giving
\* memory) and of qrng_reseed (its ctx valid).
SeedCall(t) ==
    /\ thr[t].pc = "call"
    /\ thr' = Run(t,
            IF args.seed = NULL /\ args.seed_len > 0
            THEN [thr[t] EXCEPT !.pc = "ret", !.ret = QRNG_ERROR_NULL_BUFFER]
            ELSE IF args.fn = "qrng_reseed" /\ args.seed_len = 0
            THEN [thr[t] EXCEPT !.pc = "ret", !.ret = QRNG_ERROR_INVALID_LENGTH]
            ELSE [thr[t] EXCEPT !.pc = "seed_loop"])
    /\ SeedFrame

\* One round of the seed loop. With a null seed qrng_init takes 0 and i for
\* the bytes; with a seed of length 0 it divides by zero.
SeedRound(t) ==
    /\ thr[t].pc = "seed_loop"
    /\ thr[t].i < SeedRounds(args.fn, args.seed_len)
    /\ thr' = Run(t,
            IF args.seed = NULL
            THEN [thr[t] EXCEPT !.i = @ + 1,
                                !.state = Append(@, <<0, thr[t].i>>)]
            ELSE IF args.seed_len = 0
            THEN [thr[t] EXCEPT !.pc = "fault"]
            ELSE LET at == IF args.fn = "qrng_init"
                           THEN InitIndices(args.seed_len, thr[t].i)
                           ELSE ReseedIndices(args.seed_len, thr[t].i)
                 IN  [thr[t] EXCEPT !.i = @ + 1,
                                    !.read = @ \cup {at[1], at[2]},
                                    !.state = Append(@, <<heap[t][at[1] + 1],
                                                          heap[t][at[2] + 1]>>)])
    /\ SeedFrame

\* The mixing steps after the loop, which read no seed, and the return.
SeedMixed(t) ==
    /\ thr[t].pc = "seed_loop"
    /\ thr[t].i = SeedRounds(args.fn, args.seed_len)
    /\ thr' = Run(t, [thr[t] EXCEPT !.pc = "ret", !.ret = QRNG_SUCCESS])
    /\ SeedFrame

NextSeed ==
    \E t \in Threads :
        \/ SeedCall(t)
        \/ SeedRound(t)
        \/ SeedMixed(t)

SpecSeed == InitSeed /\ [][NextSeed]_vars

\* The first 8 and the last 8 indices of a seed of n bytes.
SeedEnds(n) == {k \in 0..(n - 1) : k < QRNG_NUM_QUBITS \/ k >= n - QRNG_NUM_QUBITS}

\* C29: qrng_init and qrng_reseed read no seed byte but the first 8 and the
\* last 8, every index read being inside [0, seed_len), and for a seed of 8
\* bytes or more the indices i and seed_len - 1 - i of the rounds run; two
\* runs on seeds of one length that differ only at indices 8 .. seed_len - 9
\* are in the same state after the same number of rounds and return the same
\* result in the same state.
C29_SeedMiddleIgnored ==
    /\ \A t \in Threads :
        /\ thr[t].read \subseteq SeedEnds(args.seed_len)
        /\ (args.seed_len >= QRNG_NUM_QUBITS /\ args.seed # NULL) =>
                thr[t].read = UNION {{k, args.seed_len - 1 - k} : k \in 0..(thr[t].i - 1)}
    /\ hist.differ \cap SeedEnds(args.seed_len) = {} =>
        /\ thr[1].i = thr[2].i => thr[1].state = thr[2].state
        /\ (thr[1].pc = "ret" /\ thr[2].pc = "ret") =>
                /\ thr[1].ret = thr[2].ret
                /\ thr[1].state = thr[2].state

\* Both runs of qrng_reseed on seeds of 18 bytes that differ at indices 8 and
\* 9 have returned QRNG_SUCCESS, in the same state after 8 rounds each.
C29_Witness ==
    /\ args.fn = "qrng_reseed"
    /\ args.seed # NULL
    /\ args.seed_len = 2 * QRNG_NUM_QUBITS + 2
    /\ hist.differ = {QRNG_NUM_QUBITS, QRNG_NUM_QUBITS + 1}
    /\ heap[1] # heap[2]
    /\ \A t \in Threads :
        /\ thr[t].pc = "ret"
        /\ thr[t].ret = QRNG_SUCCESS
        /\ Len(thr[t].state) = QRNG_NUM_QUBITS
        /\ Cardinality(thr[t].read) = 2 * QRNG_NUM_QUBITS
    /\ thr[1].state = thr[2].state

=============================================================================
